---- MODULE Spec2Model ----
(***************************************************************************)
(* Model of the request -> conversation lifecycle, the anonymity/reveal    *)
(* state machine and the pay-per-message gate of the bibbly backend.       *)
(*                                                                         *)
(* The store is MongoDB accessed through Mongoose documents.  A handler    *)
(* loads a document (findOne), changes the in-memory copy and calls        *)
(* save(); save() sends a $set of the paths whose in-memory value was      *)
(* changed since the load, so two handlers that loaded the same document   *)
(* overwrite each other's fields (last write wins per path).  Every await  *)
(* on the store is a point where another handler may run, so each handler  *)
(* is a sequence of atomic steps, one per store access.                    *)
(***************************************************************************)
EXTENDS Integers, Sequences, FiniteSets, TLC

VARIABLES
    cfg,            \* AppConfig.microPayments.unrevealedChatPayment / dailyFreeRequests
    requests,       \* MessageRequest collection, indexed by _id
    conversations,  \* Conversation collection, indexed by _id
    messages,       \* Message collection, in insertion order
    blocks,         \* Block collection: set of <<blocker, blocked>>
    orders,         \* orders minted by the payment provider, indexed by order id
    pc,             \* per worker: the await the running handler is suspended at
    loc,            \* per worker: the handler's local variables
    ops,            \* handler invocations still to be started in this behaviour
    gate,           \* inputs and outputs of the payment-gate functions (GateSpec)
    packs,          \* PurchasedPack collection, indexed by _id
    events,         \* socket events emitted to rooms, in order of emission
    sockets         \* live socket connections: set of <<socket id, user>>

vars == <<cfg, requests, conversations, messages, blocks, orders, pc, loc, ops, gate,
          packs, events, sockets>>

----------------------------------------------------------------------------
(* Bounds *)

MaxOps == 3            \* handler invocations per behaviour on a conversation (Spec)
MaxReqOps == 4         \* handler invocations per behaviour from the empty store (ReqSpec)
MaxFreeLimit == 2      \* largest configured freeMessageLimit explored
MaxOrders == 2         \* payment orders minted per behaviour
MaxCount == 4          \* largest message count fed to the gate functions
MaxCycles == 2         \* largest paid-cycle count fed to the gate functions
MaxPayOps == 4         \* handler invocations per behaviour of sending and paying (PaySpec)
MaxQuotaOps == 4       \* handler invocations per behaviour of sending requests on packs (QuotaSpec)
MaxPackOps == 4        \* handler invocations per behaviour of buying packs (PackSpec)
MaxFanoutOps == 3      \* handler invocations per behaviour of sending with fan-out (FanoutSpec)
MaxMsgOps == 3         \* handler invocations per behaviour on the messages (MsgSpec)
MaxPresenceOps == 4    \* connections, disconnections and blocks per behaviour (PresenceSpec)
MaxUseOps == 2         \* useFromPacks calls per behaviour (UseSpec)
MaxUse == 2            \* largest count passed to useFromPacks
MaxPacks == 2          \* packs stored at the start of UseSpec
MaxCreditOps == 3      \* handler invocations per behaviour (CreditSpec)
MaxReactOps == 2       \* addReaction calls per behaviour (ReactSpec)
MaxDailyFree == 1      \* largest configured dailyFreeRequests explored in QuotaSpec

Users == {1, 2}
QuotaUsers == {1, 2, 3}
Workers == {1, 2}
Emojis == {"a", "b"}
SocketIds == {1, 2, 3}

(* Program constants *)
DefaultFreeMessageLimit == 100
DailyFreeRequests == 2

DefaultPrice == 1      \* pricePerMessageInPaisa, in units of the default 200 paisa
Prices == {1, 2}       \* the prices an admin sets
PackPrice == 2         \* priceInPaisa of the request pack (400 paisa), in the same unit
PackRequestCount == 2       \* requestCount of the configured request pack
NoUser == 0
NoId == 0
NoPayment == [paymentId |-> NoId, orderId |-> NoId]
Idle == [op |-> "none"]
GateIdle == [phase |-> "off"]

----------------------------------------------------------------------------
(* Conversation documents *)

Participant(u, revealed) ==
    [user |-> u, isRevealed |-> revealed, isMuted |-> FALSE,
     isArchived |-> FALSE, unreadCount |-> 0]

\* Conversation.create({...}) as called by acceptRequest, with schema defaults.
\* v is Mongoose's version key __v.
NewConversation(req, rid) ==
    [participants |-> << Participant(req.sender, ~req.isAnonymous),
                         Participant(req.recipient, TRUE) >>,
     initiator |-> req.sender,
     messageRequest |-> rid,
     isAnonymous |-> req.isAnonymous,
     lastSender |-> NoUser,
     messageCount |-> 0,
     initiatorMessageCount |-> 0,
     initiatorPaidCycles |-> 0,
     lastMessagePayment |-> NoPayment,
     revealRequestedBy |-> NoUser,
     status |-> "active",
     v |-> 0]

HasParticipant(doc, u) == \E i \in 1..2 : doc.participants[i].user = u

\* participants.findIndex(p => p.user === userId); 0 stands for -1
ParticipantIndex(doc, u) ==
    IF doc.participants[1].user = u THEN 1
    ELSE IF doc.participants[2].user = u THEN 2 ELSE 0

\* participants.find(p => p.user !== userId): the first row that is not the user's
OtherIndex(doc, u) ==
    IF doc.participants[1].user # u THEN 1 ELSE 2

getOtherParticipant(doc, u) == doc.participants[OtherIndex(doc, u)]

\* isUserRevealed reading no row at all
isUserRevealedNever(doc, u) == FALSE

\* conversation.isUserRevealed(userId)
isUserRevealed(doc, u) ==
    IF ParticipantIndex(doc, u) = 0 THEN FALSE
    ELSE doc.participants[ParticipantIndex(doc, u)].isRevealed

\* revealIdentity without the recomputation of isAnonymous
revealIdentityKeepsAnonymous(doc, u) ==
    LET i == ParticipantIndex(doc, u)
    IN  [doc EXCEPT !.participants[i].isRevealed = TRUE]

\* the in-memory effect of conversation.revealIdentity(userId, fields)
revealIdentity(doc, u) ==
    LET i == ParticipantIndex(doc, u)
        d1 == [doc EXCEPT !.participants[i].isRevealed = TRUE]
        allRevealed == \A k \in 1..2 : d1.participants[k].isRevealed
    IN  IF allRevealed THEN [d1 EXCEPT !.isAnonymous = FALSE] ELSE d1

\* updateLastMessage counting the initiator's message whether revealed or not
updateLastMessageCountsRevealed(doc, senderId) ==
    LET d1 == [doc EXCEPT !.lastSender = senderId,
                          !.messageCount = @ + 1]
        d2 == IF doc.initiator = senderId
              THEN [d1 EXCEPT !.initiatorMessageCount = @ + 1]
              ELSE d1
    IN  [d2 EXCEPT !.participants =
            [k \in 1..2 |->
                IF d2.participants[k].user # senderId
                THEN [d2.participants[k] EXCEPT !.unreadCount = @ + 1]
                ELSE d2.participants[k]]]

\* the in-memory effect of conversation.updateLastMessage(content, senderId, type)
updateLastMessage(doc, senderId) ==
    LET isInitiator == doc.initiator = senderId
        initiatorRevealed == isUserRevealed(doc, senderId)
        d1 == [doc EXCEPT !.lastSender = senderId,
                          !.messageCount = @ + 1]
        d2 == IF isInitiator /\ ~initiatorRevealed
              THEN [d1 EXCEPT !.initiatorMessageCount = @ + 1]
              ELSE d1
    IN  [d2 EXCEPT !.participants =
            [k \in 1..2 |->
                IF d2.participants[k].user # senderId
                THEN [d2.participants[k] EXCEPT !.unreadCount = @ + 1]
                ELSE d2.participants[k]]]

\* the in-memory effect of conversation.recordMessagePayment(paymentId, orderId, amount)
recordMessagePayment(doc, paymentId, orderId) ==
    [doc EXCEPT !.initiatorPaidCycles = @ + 1,
                !.lastMessagePayment = [paymentId |-> paymentId, orderId |-> orderId]]

\* markAsRead replacing the caller's row by a fresh sub-document
markAsReadResetsRow(doc, u) ==
    LET i == ParticipantIndex(doc, u)
    IN  IF i # 0 THEN [doc EXCEPT !.participants[i] = Participant(u, FALSE)] ELSE doc

\* the in-memory effect of conversation.markAsRead(userId)
markAsRead(doc, u) ==
    LET i == ParticipantIndex(doc, u)
    IN  IF i # 0 THEN [doc EXCEPT !.participants[i].unreadCount = 0] ELSE doc

\* muteForUser setting the flag on every row instead of the caller's
muteForUserEveryRow(doc, u) ==
    [doc EXCEPT !.participants = [k \in 1..2 |-> [doc.participants[k] EXCEPT !.isMuted = TRUE]]]

\* the in-memory effect of conversation.muteForUser(userId, duration)
muteForUser(doc, u) ==
    LET i == ParticipantIndex(doc, u)
    IN  IF i # 0 THEN [doc EXCEPT !.participants[i].isMuted = TRUE] ELSE doc

\* the in-memory effect of conversation.archiveForUser(userId)
archiveForUser(doc, u) ==
    LET i == ParticipantIndex(doc, u)
    IN  IF i # 0 THEN [doc EXCEPT !.participants[i].isArchived = TRUE] ELSE doc

----------------------------------------------------------------------------
(* The payment gate *)

\* `unrevealedPayment.freeMessageLimit || 100` at every call site
EffectiveLimit(configured) ==
    IF configured = 0 THEN DefaultFreeMessageLimit ELSE configured

\* initiatorNeedsToPay with a strict comparison
initiatorNeedsToPayStrict(doc, freeMessageLimit) ==
    IF isUserRevealed(doc, doc.initiator) THEN FALSE
    ELSE doc.initiatorMessageCount > freeMessageLimit * (doc.initiatorPaidCycles + 1)

\* conversation.initiatorNeedsToPay(freeMessageLimit)
initiatorNeedsToPay(doc, freeMessageLimit) ==
    IF isUserRevealed(doc, doc.initiator) THEN FALSE
    ELSE LET allowedMessages == freeMessageLimit * (doc.initiatorPaidCycles + 1)
         IN  doc.initiatorMessageCount >= allowedMessages

\* conversation.getInitiatorMessageStats(freeMessageLimit).needsToPay
getInitiatorMessageStats(doc, freeMessageLimit) ==
    IF isUserRevealed(doc, doc.initiator)
    THEN [isRevealed |-> TRUE, needsToPay |-> FALSE, currentCount |-> 0, paidCycles |-> 0]
    ELSE [isRevealed |-> FALSE,
          needsToPay |-> doc.initiatorMessageCount
                            >= freeMessageLimit * (doc.initiatorPaidCycles + 1),
          currentCount |-> doc.initiatorMessageCount,
          paidCycles |-> doc.initiatorPaidCycles]

\* the inline check of sendMessage letting one more message through
SendGateLate(doc, u, config) ==
    LET isInitiator == doc.initiator = u
        isInitiatorRevealed == isUserRevealed(doc, doc.initiator)
        freeMessageLimit == EffectiveLimit(config.freeMessageLimit)
        allowedMessages == freeMessageLimit * (doc.initiatorPaidCycles + 1)
    IN  /\ isInitiator /\ ~isInitiatorRevealed
        /\ config.isEnabled
        /\ doc.initiatorMessageCount > allowedMessages

\* the inline check of sendMessage: TRUE when the handler answers 402
SendGate(doc, u, config) ==
    LET isInitiator == doc.initiator = u
        isInitiatorRevealed == isUserRevealed(doc, doc.initiator)
        freeMessageLimit == EffectiveLimit(config.freeMessageLimit)
        allowedMessages == freeMessageLimit * (doc.initiatorPaidCycles + 1)
    IN  /\ isInitiator /\ ~isInitiatorRevealed
        /\ config.isEnabled
        /\ doc.initiatorMessageCount >= allowedMessages

\* the body of ApiResponse.paymentRequired in sendMessage
PaymentRequired(doc, config) ==
    LET freeMessageLimit == EffectiveLimit(config.freeMessageLimit)
        currentCount == doc.initiatorMessageCount
        paidCycles == doc.initiatorPaidCycles
    IN  [freeMessageLimit |-> freeMessageLimit, currentCount |-> currentCount,
         paidCycles |-> paidCycles,
         allowedMessages |-> freeMessageLimit * (paidCycles + 1)]

\* the check of createMessageOrder without the test of initiatorNeedsToPay
OrderGateAlways(doc, config) == config.isEnabled

\* the check of createMessageOrder: TRUE when an order may be minted
OrderGate(doc, config) ==
    /\ config.isEnabled
    /\ initiatorNeedsToPay(doc, EffectiveLimit(config.freeMessageLimit))

----------------------------------------------------------------------------
(* Mongoose save() *)

\* the paths a save() writes: those whose in-memory value differs from the
\* value the document had when it was loaded (or last saved)
MergeParticipant(db, base, doc) ==
    [user |-> db.user,
     isRevealed |-> IF doc.isRevealed # base.isRevealed THEN doc.isRevealed ELSE db.isRevealed,
     isMuted |-> IF doc.isMuted # base.isMuted THEN doc.isMuted ELSE db.isMuted,
     isArchived |-> IF doc.isArchived # base.isArchived THEN doc.isArchived ELSE db.isArchived,
     unreadCount |-> IF doc.unreadCount # base.unreadCount THEN doc.unreadCount ELSE db.unreadCount]

Merge(db, base, doc) ==
    [participants |-> [k \in 1..2 |->
                         MergeParticipant(db.participants[k], base.participants[k],
                                          doc.participants[k])],
     initiator |-> db.initiator,
     messageRequest |-> db.messageRequest,
     isAnonymous |-> IF doc.isAnonymous # base.isAnonymous THEN doc.isAnonymous ELSE db.isAnonymous,
     lastSender |-> IF doc.lastSender # base.lastSender THEN doc.lastSender ELSE db.lastSender,
     messageCount |-> IF doc.messageCount # base.messageCount
                      THEN doc.messageCount ELSE db.messageCount,
     initiatorMessageCount |-> IF doc.initiatorMessageCount # base.initiatorMessageCount
                               THEN doc.initiatorMessageCount ELSE db.initiatorMessageCount,
     initiatorPaidCycles |-> IF doc.initiatorPaidCycles # base.initiatorPaidCycles
                             THEN doc.initiatorPaidCycles ELSE db.initiatorPaidCycles,
     lastMessagePayment |-> IF doc.lastMessagePayment # base.lastMessagePayment
                            THEN doc.lastMessagePayment ELSE db.lastMessagePayment,
     revealRequestedBy |-> IF doc.revealRequestedBy # base.revealRequestedBy
                           THEN doc.revealRequestedBy ELSE db.revealRequestedBy,
     status |-> IF doc.status # base.status THEN doc.status ELSE db.status,
     v |-> db.v]

\* a save that sets a path below participants.<i> carries `__v: <loaded version>`
\* in its filter and fails with a VersionError when the stored version differs
TouchesParticipants(base, doc) == doc.participants # base.participants

SaveOk(db, base, doc) == TouchesParticipants(base, doc) => db.v = base.v

----------------------------------------------------------------------------
(* Request documents and the documents acceptRequest creates *)

NewRequest(s, r, anon) ==
    [sender |-> s, recipient |-> r, status |-> "pending", isAnonymous |-> anon,
     expired |-> FALSE,          \* expiresAt < new Date()
     conversation |-> NoId, isReadByRecipient |-> FALSE]

\* Message.create({conversation, sender, recipient, content, type})
NewMessage(c, s, r, type) ==
    [conversation |-> c, sender |-> s, recipient |-> r, type |-> type,
     isRead |-> FALSE, deliveryStatus |-> "sent", reactions |-> << >>, v |-> 0]

\* the in-memory effect of request.accept(conversationId)
accept(req, cid) == [req EXCEPT !.status = "accepted", !.conversation = cid]

\* pre('save') hook of the request schema
preSave(req) ==
    IF req.status = "pending" /\ req.expired THEN [req EXCEPT !.status = "expired"] ELSE req

----------------------------------------------------------------------------
(* Workers *)

\* A worker is free before its first call and once it has sent a response
\* (pc = "done": loc still holds the outcome of that call).  Workers are
\* interchangeable, so a new call is given to the first free worker.
Free(w) == pc[w] \in {"idle", "done"}

Start(w) ==
    /\ Free(w)
    /\ \A x \in Workers : x < w => ~Free(x)
    /\ ops > 0
    /\ ops' = ops - 1

Goto(w, label, l) == pc' = [pc EXCEPT ![w] = label] /\ loc' = [loc EXCEPT ![w] = l]

\* Conversation.findOne({_id, 'participants.user': userId[, status: 'active']})
FindConversation(c, u, activeOnly) ==
    /\ c \in DOMAIN conversations
    /\ HasParticipant(conversations[c], u)
    /\ activeOnly => conversations[c].status = "active"

\* Block.hasBlockBetween(a, b)
hasBlockBetween(a, b) == <<a, b>> \in blocks \/ <<b, a>> \in blocks

\* The copy of a conversation a handler works on.  The handlers that span
\* several awaits read and write only the reveal flags, the counters, the other
\* participant's unreadCount and the version; lastMessage, lastMessagePayment
\* and revealRequestedBy are assigned together with a fresh Date and so are
\* written by every save that assigns them.  The remaining fields of the copy
\* are never read again and are left at their defaults.
Loaded(doc, u) ==
    [doc EXCEPT
        !.participants = [k \in 1..2 |->
            [doc.participants[k] EXCEPT
                !.isMuted = FALSE,
                !.isArchived = FALSE,
                !.unreadCount = IF doc.participants[k].user = u THEN 0 ELSE @]],
        !.lastSender = NoUser,
        !.lastMessagePayment = NoPayment,
        !.revealRequestedBy = NoUser]

Call(op, u, c) ==
    [op |-> op, user |-> u, conv |-> c, res |-> 0,
     base |-> Loaded(conversations[c], u), doc |-> Loaded(conversations[c], u)]

\* what remains of a call once its response is sent: the outcome and the
\* counters the handler had loaded
Outcome(l, code) ==
    [op |-> l.op, user |-> l.user, conv |-> l.conv, res |-> code,
     seenCount |-> l.base.initiatorMessageCount,
     seenCycles |-> l.base.initiatorPaidCycles,
     seenRevealed |-> isUserRevealed(l.base, l.base.initiator)]

NotFound(op, u, c) == [op |-> op, user |-> u, conv |-> c, res |-> 404]

\* conversation.save() of worker w's in-memory document d
SaveConversation(w, d) ==
    conversations' = [conversations EXCEPT
        ![loc[w].conv] = Merge(@, loc[w].base, d)]

Return(w, code) == Goto(w, "done", Outcome(loc[w], code))

\* io.to(`conversation:${c}`).emit(type, {...}); msg is the message carried,
\* user the user named in the payload
Event(type, c, msg, u) == [type |-> type, conv |-> c, msg |-> msg, user |-> u]

Emit(e) == events' = Append(events, e)

----------------------------------------------------------------------------
(* sendMessage (HTTP) *)

SendLoad(w, u, c) ==
    /\ Start(w)
    /\ IF FindConversation(c, u, TRUE)
       THEN Goto(w, "send_check",
                 Call("sendMessage", u, c)
                 @@ [muted |-> getOtherParticipant(conversations[c], u).isMuted])
       ELSE Goto(w, "done", NotFound("sendMessage", u, c))
    /\ UNCHANGED <<cfg, requests, conversations, messages, blocks, orders, gate, packs, events, sockets>>

\* the block check, then the payment gate on the loaded document
SendCheck(w) ==
    /\ pc[w] = "send_check"
    /\ LET l == loc[w]
           recipientId == getOtherParticipant(l.doc, l.user).user
       IN  IF hasBlockBetween(l.user, recipientId) THEN Return(w, 403)
           ELSE IF SendGate(l.doc, l.user, cfg)
                THEN Goto(w, "done", Outcome(l, 402) @@ PaymentRequired(l.doc, cfg))
           ELSE Goto(w, "send_create", l)
    /\ UNCHANGED <<cfg, requests, conversations, messages, blocks, orders, ops, gate, packs, events, sockets>>

\* SendCreate emitting new_message for a message the store refused
SendCreateEmitsUnwritten(w, written) ==
    /\ pc[w] = "send_create"
    /\ LET l == loc[w]
       IN  IF written
           THEN /\ messages' = Append(messages,
                       NewMessage(l.conv, l.user,
                                  getOtherParticipant(l.doc, l.user).user, "text"))
                /\ Goto(w, "send_save", l @@ [msg |-> Len(messages) + 1])
                /\ UNCHANGED events
           ELSE /\ Goto(w, "done", Outcome(l, 500) @@ [written |-> FALSE])
                /\ Emit(Event("new_message", l.conv, Len(messages) + 1, l.user))
                /\ UNCHANGED messages
    /\ UNCHANGED <<cfg, requests, conversations, blocks, orders, ops, gate, packs, sockets>>

\* Message.create({...}); written tells whether the store accepted the write
SendCreate(w, written) ==
    /\ pc[w] = "send_create"
    /\ LET l == loc[w]
       IN  IF written
           THEN /\ messages' = Append(messages,
                       NewMessage(l.conv, l.user,
                                  getOtherParticipant(l.doc, l.user).user, "text"))
                /\ Goto(w, "send_save", l @@ [msg |-> Len(messages) + 1])
           ELSE /\ Goto(w, "done", Outcome(l, 500) @@ [written |-> FALSE])
                /\ UNCHANGED messages
    /\ UNCHANGED <<cfg, requests, conversations, blocks, orders, ops, gate, packs, events, sockets>>

\* conversation.updateLastMessage(content, req.userId, type)
SendSave(w) ==
    /\ pc[w] = "send_save"
    /\ LET l == loc[w]
           d == updateLastMessage(l.doc, l.user)
       IN  IF SaveOk(conversations[l.conv], l.base, d)
           THEN /\ SaveConversation(w, d)
                /\ Goto(w, "send_notify", l)
           ELSE /\ Return(w, 500)
                /\ UNCHANGED conversations
    /\ UNCHANGED <<cfg, requests, messages, blocks, orders, ops, gate, packs, events, sockets>>

\* the push notification and the fan-out: unless the recipient has muted the
\* conversation, User.findById(recipientId) and recipient.oneSignalPlayerId,
\* which throws when no user record was found; sendNewMessageNotification
\* reports its own failures in its result; then the emit and the response
SendNotify(w, recipientFound) ==
    /\ pc[w] = "send_notify"
    /\ LET l == loc[w]
       IN  IF ~l.muted /\ ~recipientFound
           THEN /\ Return(w, 500)
                /\ UNCHANGED events
           ELSE /\ Emit(Event("new_message", l.conv, l.msg, l.user))
                /\ Return(w, 201)
    /\ UNCHANGED <<cfg, requests, conversations, messages, blocks, orders, ops, gate, packs,
                   sockets>>

----------------------------------------------------------------------------
(* socket.on('send_message') *)

SocketLoad(w, u, c) ==
    /\ Start(w)
    /\ IF FindConversation(c, u, TRUE)
       THEN Goto(w, "socket_create", Call("send_message", u, c))
       ELSE Goto(w, "done", NotFound("send_message", u, c))
    /\ UNCHANGED <<cfg, requests, conversations, messages, blocks, orders, gate, packs, events, sockets>>

SocketCreate(w, written) ==
    /\ pc[w] = "socket_create"
    /\ LET l == loc[w]
       IN  IF written
           THEN /\ messages' = Append(messages,
                       NewMessage(l.conv, l.user,
                                  l.doc.participants[OtherIndex(l.doc, l.user)].user,
                                  "text"))
                /\ Goto(w, "socket_save", l @@ [msg |-> Len(messages) + 1])
           ELSE /\ Goto(w, "done", Outcome(l, 500) @@ [written |-> FALSE])
                /\ UNCHANGED messages
    /\ UNCHANGED <<cfg, requests, conversations, blocks, orders, ops, gate, packs, events, sockets>>

SocketSave(w) ==
    /\ pc[w] = "socket_save"
    /\ LET l == loc[w]
           d == updateLastMessage(l.doc, l.user)
       IN  IF SaveOk(conversations[l.conv], l.base, d)
           THEN /\ SaveConversation(w, d)
                /\ Goto(w, "socket_emit", l)
           ELSE /\ Return(w, 500)
                /\ UNCHANGED conversations
    /\ UNCHANGED <<cfg, requests, messages, blocks, orders, ops, gate, packs, events, sockets>>

\* io.to(`conversation:${conversationId}`).emit('new_message', ...)
SocketEmit(w) ==
    /\ pc[w] = "socket_emit"
    /\ Emit(Event("new_message", loc[w].conv, loc[w].msg, loc[w].user))
    /\ Return(w, 200)
    /\ UNCHANGED <<cfg, requests, conversations, messages, blocks, orders, ops, gate, packs,
                   sockets>>

----------------------------------------------------------------------------
(* revealIdentity (HTTP) *)

RevealLoad(w, u, c) ==
    /\ Start(w)
    /\ IF ~FindConversation(c, u, FALSE)
       THEN Goto(w, "done", NotFound("revealIdentity", u, c))
       ELSE LET l == Call("revealIdentity", u, c)
            IN  IF l.doc.initiator # u THEN Goto(w, "done", Outcome(l, 403))
                ELSE IF isUserRevealed(l.doc, u) THEN Goto(w, "done", Outcome(l, 400))
                ELSE Goto(w, "reveal_save", l)
    /\ UNCHANGED <<cfg, requests, conversations, messages, blocks, orders, gate, packs, events, sockets>>

\* conversation.revealIdentity(req.userId, fields): the save sets the array
\* participants.<i>.revealedFields, so it is filtered on and increments __v
RevealSave(w) ==
    /\ pc[w] = "reveal_save"
    /\ LET l == loc[w]
           d == revealIdentity(l.doc, l.user)
       IN  IF conversations[l.conv].v = l.base.v
           THEN /\ conversations' = [conversations EXCEPT
                       ![l.conv] = [Merge(@, l.base, d) EXCEPT !.v = @ + 1]]
                /\ Goto(w, "reveal_create",
                        [l EXCEPT !.doc = [d EXCEPT !.v = @ + 1],
                                  !.base = [d EXCEPT !.v = @ + 1]])
           ELSE /\ Return(w, 500)
                /\ UNCHANGED conversations
    /\ UNCHANGED <<cfg, requests, messages, blocks, orders, ops, gate, packs, events, sockets>>

RevealCreate(w) ==
    /\ pc[w] = "reveal_create"
    /\ LET l == loc[w]
       IN  messages' = Append(messages,
               NewMessage(l.conv, l.user, getOtherParticipant(l.doc, l.user).user, "reveal"))
    /\ Goto(w, "reveal_update", loc[w] @@ [msg |-> Len(messages) + 1])
    /\ UNCHANGED <<cfg, requests, conversations, blocks, orders, ops, gate, packs, events, sockets>>

\* conversation.updateLastMessage('Identity revealed', req.userId, 'reveal')
RevealUpdate(w) ==
    /\ pc[w] = "reveal_update"
    /\ LET l == loc[w]
           d == updateLastMessage(l.doc, l.user)
       IN  IF SaveOk(conversations[l.conv], l.base, d)
           THEN /\ SaveConversation(w, d)
                /\ Goto(w, "reveal_emit", l)
           ELSE /\ Return(w, 500)
                /\ UNCHANGED conversations
    /\ UNCHANGED <<cfg, requests, messages, blocks, orders, ops, gate, packs, events, sockets>>

\* the notification, the push to the other user (otherUser?.oneSignalPlayerId)
\* and io.to(`conversation:${conversationId}`).emit('identity_revealed', ...)
RevealEmit(w) ==
    /\ pc[w] = "reveal_emit"
    /\ Emit(Event("identity_revealed", loc[w].conv, NoId, loc[w].user))
    /\ Return(w, 200)
    /\ UNCHANGED <<cfg, requests, conversations, messages, blocks, orders, ops, gate, packs,
                   sockets>>

----------------------------------------------------------------------------
(* requestReveal (HTTP) *)

RequestRevealLoad(w, u, c) ==
    /\ Start(w)
    /\ IF ~FindConversation(c, u, FALSE)
       THEN Goto(w, "done", NotFound("requestReveal", u, c))
       ELSE LET l == Call("requestReveal", u, c)
            IN  IF l.doc.initiator = u THEN Goto(w, "done", Outcome(l, 403))
                ELSE IF getOtherParticipant(l.doc, u).isRevealed
                     THEN Goto(w, "done", Outcome(l, 400))
                ELSE Goto(w, "request_reveal_save", l)
    /\ UNCHANGED <<cfg, requests, conversations, messages, blocks, orders, gate, packs, events, sockets>>

\* conversation.revealRequestedBy = req.userId; ...; await conversation.save()
RequestRevealSave(w) ==
    /\ pc[w] = "request_reveal_save"
    /\ LET l == loc[w]
           d == [l.doc EXCEPT !.revealRequestedBy = l.user]
       IN  /\ SaveConversation(w, d)
           /\ Goto(w, "request_reveal_create", [l EXCEPT !.doc = d, !.base = d])
    /\ UNCHANGED <<cfg, requests, messages, blocks, orders, ops, gate, packs, events, sockets>>

RequestRevealCreate(w) ==
    /\ pc[w] = "request_reveal_create"
    /\ LET l == loc[w]
       IN  messages' = Append(messages,
               NewMessage(l.conv, l.user, l.doc.initiator, "system"))
    /\ Goto(w, "request_reveal_update", loc[w] @@ [msg |-> Len(messages) + 1])
    /\ UNCHANGED <<cfg, requests, conversations, blocks, orders, ops, gate, packs, events, sockets>>

\* conversation.updateLastMessage('wants to see your identity', req.userId, 'system')
RequestRevealUpdate(w) ==
    /\ pc[w] = "request_reveal_update"
    /\ LET l == loc[w]
           d == updateLastMessage(l.doc, l.user)
       IN  IF SaveOk(conversations[l.conv], l.base, d)
           THEN /\ SaveConversation(w, d)
                /\ Goto(w, "request_reveal_emit", l)
           ELSE /\ Return(w, 500)
                /\ UNCHANGED conversations
    /\ UNCHANGED <<cfg, requests, messages, blocks, orders, ops, gate, packs, events, sockets>>

\* the notification for the initiator, then the two emits: the system message
\* as new_message, and reveal_requested
RequestRevealEmit(w) ==
    /\ pc[w] = "request_reveal_emit"
    /\ events' = events \o << Event("new_message", loc[w].conv, loc[w].msg, loc[w].user),
                               Event("reveal_requested", loc[w].conv, NoId, loc[w].user) >>
    /\ Return(w, 200)
    /\ UNCHANGED <<cfg, requests, conversations, messages, blocks, orders, ops, gate, packs,
                   sockets>>

----------------------------------------------------------------------------
(* The payment provider and the message-payment handlers *)

\* createOrder(price, 'INR', {type: 'message_payment', conversationId, userId, ...})
\* the order, and the payment made for it, carry the price charged
NewOrder(c, u) ==
    [conversation |-> c, user |-> u, status |-> "created",
     amount |-> cfg.pricePerMessageInPaisa]

\* the client completes the checkout of order o; its payment is captured
ClientPays(o) ==
    /\ o \in DOMAIN orders
    /\ orders[o].status = "created"
    /\ orders' = [orders EXCEPT ![o].status = "captured"]
    /\ UNCHANGED <<cfg, requests, conversations, messages, blocks, pc, loc, ops, gate, packs, events, sockets>>

\* the bank authorizes the payment of order o; it is not captured yet
PaymentAuthorized(o) ==
    /\ o \in DOMAIN orders
    /\ orders[o].status = "created"
    /\ orders' = [orders EXCEPT ![o].status = "authorized"]
    /\ UNCHANGED <<cfg, requests, conversations, messages, blocks, pc, loc, ops, gate, packs, events, sockets>>

\* the payment of order o fails
PaymentFails(o) ==
    /\ o \in DOMAIN orders
    /\ orders[o].status = "created"
    /\ orders' = [orders EXCEPT ![o].status = "failed"]
    /\ UNCHANGED <<cfg, requests, conversations, messages, blocks, pc, loc, ops, gate, packs, events, sockets>>

\* updateUnrevealedChatPaymentSettings({pricePerMessageInPaisa: p}) by an admin;
\* counted as a call
UpdatePrice(p) ==
    /\ p # cfg.pricePerMessageInPaisa
    /\ ops > 0
    /\ ops' = ops - 1
    /\ cfg' = [cfg EXCEPT !.pricePerMessageInPaisa = p]
    /\ UNCHANGED <<requests, conversations, messages, blocks, orders, pc, loc, gate, packs, events, sockets>>

CreateOrderLoad(w, u, c) ==
    /\ Start(w)
    /\ IF ~FindConversation(c, u, TRUE)
       THEN Goto(w, "done", NotFound("createMessageOrder", u, c))
       ELSE LET l == Call("createMessageOrder", u, c)
            IN  IF l.doc.initiator # u THEN Goto(w, "done", Outcome(l, 403))
                ELSE IF ~OrderGate(l.doc, cfg) THEN Goto(w, "done", Outcome(l, 400))
                ELSE Goto(w, "order_mint", l)
    /\ UNCHANGED <<cfg, requests, conversations, messages, blocks, orders, gate, packs, events, sockets>>

CreateOrderMint(w) ==
    /\ pc[w] = "order_mint"
    /\ Len(orders) < MaxOrders
    /\ orders' = Append(orders, NewOrder(loc[w].conv, loc[w].user))
    /\ Return(w, 200)
    /\ UNCHANGED <<cfg, requests, conversations, messages, blocks, ops, gate, packs, events, sockets>>

\* verifyMessagePayment up to and including verifyPayment(orderId, paymentId, signature);
\* the payment of order o carries o as its paymentId
VerifyLoad(w, u, c, o, signatureValid) ==
    /\ Start(w)
    /\ o \in DOMAIN orders
    /\ IF ~FindConversation(c, u, TRUE)
       THEN Goto(w, "done", NotFound("verifyMessagePayment", u, c))
       ELSE LET l == [Call("verifyMessagePayment", u, c) EXCEPT !.res = 0]
                         @@ [order |-> o, signature |-> signatureValid,
                             price |-> cfg.pricePerMessageInPaisa]
                refused(code) == Outcome(l, code) @@ [signature |-> signatureValid]
            IN  IF l.doc.initiator # u THEN Goto(w, "done", refused(403))
                ELSE IF ~cfg.isEnabled THEN Goto(w, "done", refused(400))
                ELSE IF ~signatureValid THEN Goto(w, "done", refused(400))
                ELSE Goto(w, "verify_fetch", l)
    /\ UNCHANGED <<cfg, requests, conversations, messages, blocks, orders, gate, packs, events, sockets>>

\* the payment statuses verifyMessagePayment takes as successful
Successful == {"captured", "authorized"}

\* getPaymentDetails(paymentId), the status check and the amount check against
\* the price read with the config
VerifyFetch(w) ==
    /\ pc[w] = "verify_fetch"
    /\ IF orders[loc[w].order].status \notin Successful
       THEN Return(w, 400)
       ELSE IF orders[loc[w].order].amount # loc[w].price
       THEN Return(w, 400)
       ELSE Goto(w, "verify_record", loc[w])
    /\ UNCHANGED <<cfg, requests, conversations, messages, blocks, orders, ops, gate, packs, events, sockets>>

\* conversation.recordMessagePayment(paymentId, orderId, price)
VerifyRecord(w) ==
    /\ pc[w] = "verify_record"
    /\ LET l == loc[w]
           d == recordMessagePayment(l.doc, l.order, l.order)
       IN  /\ SaveConversation(w, d)
           /\ Return(w, 200)
    /\ UNCHANGED <<cfg, requests, messages, blocks, orders, ops, gate, packs, events, sockets>>

----------------------------------------------------------------------------
(* Per-participant flags.  Each handler is findOne -> change own row ->     *)
(* save; what it writes does not depend on what it loaded, so the load and *)
(* the save are taken as one step.                                         *)

\* getMessages / socket mark_read: conversation.markAsRead(userId)
MarkConversationRead(w, u, c) ==
    /\ Start(w)
    /\ FindConversation(c, u, FALSE)
    /\ conversations' = [conversations EXCEPT
           ![c] = Merge(@, @, markAsRead(@, u))]
    /\ UNCHANGED <<cfg, requests, messages, blocks, orders, pc, loc, gate, packs, events, sockets>>

MuteConversation(w, u, c) ==
    /\ Start(w)
    /\ FindConversation(c, u, FALSE)
    /\ conversations' = [conversations EXCEPT
           ![c] = Merge(@, @, muteForUser(@, u))]
    /\ UNCHANGED <<cfg, requests, messages, blocks, orders, pc, loc, gate, packs, events, sockets>>

UnmuteConversation(w, u, c) ==
    /\ Start(w)
    /\ FindConversation(c, u, FALSE)
    /\ LET i == ParticipantIndex(conversations[c], u)
       IN  conversations' = [conversations EXCEPT
               ![c] = Merge(@, @, [@ EXCEPT !.participants[i].isMuted = FALSE])]
    /\ UNCHANGED <<cfg, requests, messages, blocks, orders, pc, loc, gate, packs, events, sockets>>

ArchiveConversation(w, u, c) ==
    /\ Start(w)
    /\ FindConversation(c, u, FALSE)
    /\ conversations' = [conversations EXCEPT
           ![c] = Merge(@, @, archiveForUser(@, u))]
    /\ UNCHANGED <<cfg, requests, messages, blocks, orders, pc, loc, gate, packs, events, sockets>>

UnarchiveConversation(w, u, c) ==
    /\ Start(w)
    /\ FindConversation(c, u, FALSE)
    /\ LET i == ParticipantIndex(conversations[c], u)
       IN  conversations' = [conversations EXCEPT
               ![c] = Merge(@, @, [@ EXCEPT !.participants[i].isArchived = FALSE])]
    /\ UNCHANGED <<cfg, requests, messages, blocks, orders, pc, loc, gate, packs, events, sockets>>

----------------------------------------------------------------------------
(* blockUser / unblockUser *)

\* Block.findOne({blocker, blocked}) and Block.create
BlockCreate(w, u, t) ==
    /\ Start(w)
    /\ u # t
    /\ IF <<u, t>> \in blocks
       THEN /\ Goto(w, "done", [op |-> "blockUser", user |-> u, target |-> t, res |-> 409])
            /\ UNCHANGED blocks
       ELSE /\ blocks' = blocks \cup {<<u, t>>}
            /\ Goto(w, "block_conversation",
                    [op |-> "blockUser", user |-> u, target |-> t, res |-> 0])
    /\ UNCHANGED <<cfg, requests, conversations, messages, orders, gate, packs, events, sockets>>

\* Conversation.findOne({'participants.user': {$all: [a, b]}, status: 'active'})
ActiveBetween(a, b) ==
    {c \in DOMAIN conversations :
        /\ HasParticipant(conversations[c], a)
        /\ HasParticipant(conversations[c], b)
        /\ conversations[c].status = "active"}

BlockConversation(w) ==
    /\ pc[w] = "block_conversation"
    /\ LET found == ActiveBetween(loc[w].user, loc[w].target)
       IN  IF found = {} THEN UNCHANGED conversations
           ELSE LET c == CHOOSE x \in found : \A y \in found : x <= y
                IN  conversations' = [conversations EXCEPT ![c].status = "blocked"]
    /\ Goto(w, "done", [loc[w] EXCEPT !.res = 200])
    /\ UNCHANGED <<cfg, requests, messages, blocks, orders, ops, gate, packs, events, sockets>>

\* Block.findOneAndDelete({blocker, blocked})
UnblockUser(w, u, t) ==
    /\ Start(w)
    /\ <<u, t>> \in blocks
    /\ blocks' = blocks \ {<<u, t>>}
    /\ UNCHANGED <<cfg, requests, conversations, messages, orders, pc, loc, gate, packs, events, sockets>>

----------------------------------------------------------------------------
(* Spec: the operations on a conversation.  The initial states are the     *)
(* states acceptRequest leaves behind for an anonymous and for a           *)
(* non-anonymous request from user 1 to user 2.                            *)

Configs ==
    [isEnabled : BOOLEAN, freeMessageLimit : 1..MaxFreeLimit,
     dailyFreeRequests : {DailyFreeRequests},
     pricePerMessageInPaisa : {DefaultPrice}]

AcceptedConversation(req, rid) == updateLastMessage(NewConversation(req, rid), req.sender)

Init ==
    /\ cfg \in Configs
    /\ \E anon \in BOOLEAN :
         LET req == NewRequest(1, 2, anon)
         IN  /\ requests = << accept(req, 1) >>
             /\ conversations = << AcceptedConversation(req, 1) >>
             /\ messages = << NewMessage(1, 1, 2, "text") >>
    /\ blocks = {}
    /\ orders = << >>
    /\ pc = [w \in Workers |-> "idle"]
    /\ loc = [w \in Workers |-> Idle]
    /\ ops = MaxOps
    /\ gate = GateIdle
    /\ packs = << >>
    /\ events = << >>
    /\ sockets = {}

ConversationStep(w) ==
    \/ \E u \in Users, c \in DOMAIN conversations : SendLoad(w, u, c)
    \/ SendCheck(w) \/ SendCreate(w, TRUE) \/ SendSave(w) \/ SendNotify(w, TRUE)
    \/ \E u \in Users, c \in DOMAIN conversations : SocketLoad(w, u, c)
    \/ SocketCreate(w, TRUE) \/ SocketSave(w) \/ SocketEmit(w)
    \/ \E u \in Users, c \in DOMAIN conversations : RevealLoad(w, u, c)
    \/ RevealSave(w) \/ RevealCreate(w) \/ RevealUpdate(w) \/ RevealEmit(w)
    \/ \E u \in Users, c \in DOMAIN conversations : RequestRevealLoad(w, u, c)
    \/ RequestRevealSave(w) \/ RequestRevealCreate(w) \/ RequestRevealUpdate(w)
    \/ RequestRevealEmit(w)
    \/ \E u \in Users, c \in DOMAIN conversations : CreateOrderLoad(w, u, c)
    \/ CreateOrderMint(w)
    \/ \E u \in Users, c \in DOMAIN conversations, o \in DOMAIN orders, sig \in BOOLEAN :
         VerifyLoad(w, u, c, o, sig)
    \/ VerifyFetch(w) \/ VerifyRecord(w)
    \/ \E u \in Users, c \in DOMAIN conversations : MarkConversationRead(w, u, c)
    \/ \E u \in Users, c \in DOMAIN conversations : MuteConversation(w, u, c)
    \/ \E u \in Users, c \in DOMAIN conversations : UnmuteConversation(w, u, c)
    \/ \E u \in Users, c \in DOMAIN conversations : ArchiveConversation(w, u, c)
    \/ \E u \in Users, c \in DOMAIN conversations : UnarchiveConversation(w, u, c)

BlockStep(w) ==
    \/ \E u \in Users, t \in Users : BlockCreate(w, u, t)
    \/ BlockConversation(w)
    \/ \E u \in Users, t \in Users : UnblockUser(w, u, t)

Next ==
    \/ \E w \in Workers : ConversationStep(w)
    \/ \E w \in Workers : BlockStep(w)
    \/ \E o \in DOMAIN orders : ClientPays(o)

Spec == Init /\ [][Next]_vars

----------------------------------------------------------------------------
(* PaySpec: sending and paying only, with a larger budget of calls, so that *)
(* a conversation lives through several paid cycles.                        *)

PayInit ==
    /\ cfg \in Configs
    /\ \E anon \in BOOLEAN :
         LET req == NewRequest(1, 2, anon)
         IN  /\ requests = << accept(req, 1) >>
             /\ conversations = << AcceptedConversation(req, 1) >>
             /\ messages = << NewMessage(1, 1, 2, "text") >>
    /\ blocks = {}
    /\ orders = << >>
    /\ pc = [w \in Workers |-> "idle"]
    /\ loc = [w \in Workers |-> Idle]
    /\ ops = MaxPayOps
    /\ gate = GateIdle
    /\ packs = << >>
    /\ events = << >>
    /\ sockets = {}

PayStep(w) ==
    \/ \E u \in Users, c \in DOMAIN conversations : SendLoad(w, u, c)
    \/ SendCheck(w) \/ SendCreate(w, TRUE) \/ SendSave(w) \/ SendNotify(w, TRUE)
    \/ \E u \in Users, c \in DOMAIN conversations : CreateOrderLoad(w, u, c)
    \/ CreateOrderMint(w)
    \/ \E u \in Users, c \in DOMAIN conversations, o \in DOMAIN orders, sig \in BOOLEAN :
         VerifyLoad(w, u, c, o, sig)
    \/ VerifyFetch(w) \/ VerifyRecord(w)

PayNext ==
    \/ \E w \in Workers : PayStep(w)
    \/ \E o \in DOMAIN orders : ClientPays(o)
    \/ \E o \in DOMAIN orders : PaymentAuthorized(o)
    \/ \E o \in DOMAIN orders : PaymentFails(o)
    \/ \E p \in Prices : UpdatePrice(p)

PaySpec == PayInit /\ [][PayNext]_vars

----------------------------------------------------------------------------
(* FanoutSpec: the two send paths and requestReveal with their emits, the  *)
(* store refusing a write and the recipient's user record missing          *)

FanoutInit ==
    /\ cfg \in {c \in Configs : c.freeMessageLimit = MaxFreeLimit}
    /\ \E anon \in BOOLEAN :
         LET req == NewRequest(1, 2, anon)
         IN  /\ requests = << accept(req, 1) >>
             /\ conversations = << AcceptedConversation(req, 1) >>
             /\ messages = << NewMessage(1, 1, 2, "text") >>
    /\ blocks = {}
    /\ orders = << >>
    /\ pc = [w \in Workers |-> "idle"]
    /\ loc = [w \in Workers |-> Idle]
    /\ ops = MaxFanoutOps
    /\ gate = GateIdle
    /\ packs = << >>
    /\ events = << >>
    /\ sockets = {}

FanoutStep(w) ==
    \/ \E u \in Users, c \in DOMAIN conversations : SendLoad(w, u, c)
    \/ SendCheck(w)
    \/ \E written \in BOOLEAN : SendCreate(w, written)
    \/ SendSave(w)
    \/ \E recipientFound \in BOOLEAN : SendNotify(w, recipientFound)
    \/ \E u \in Users, c \in DOMAIN conversations : SocketLoad(w, u, c)
    \/ \E written \in BOOLEAN : SocketCreate(w, written)
    \/ SocketSave(w) \/ SocketEmit(w)
    \/ \E u \in Users, c \in DOMAIN conversations : RequestRevealLoad(w, u, c)
    \/ RequestRevealSave(w) \/ RequestRevealCreate(w) \/ RequestRevealUpdate(w)
    \/ RequestRevealEmit(w)
    \/ \E u \in Users, c \in DOMAIN conversations : MuteConversation(w, u, c)

FanoutNext == \E w \in Workers : FanoutStep(w)

FanoutSpec == FanoutInit /\ [][FanoutNext]_vars

----------------------------------------------------------------------------
(* MessageRequest handlers *)

\* existsBetweenUsers looking only at requests from a to b
existsBetweenUsersOneWay(a, b) ==
    \E r \in DOMAIN requests :
        /\ requests[r].sender = a /\ requests[r].recipient = b
        /\ requests[r].status \in {"pending", "accepted"}

\* MessageRequest.existsBetweenUsers(a, b)
existsBetweenUsers(a, b) ==
    \E r \in DOMAIN requests :
        /\ \/ requests[r].sender = a /\ requests[r].recipient = b
           \/ requests[r].sender = b /\ requests[r].recipient = a
        /\ requests[r].status \in {"pending", "accepted"}

\* MessageRequest.countTodayRequestsBySender(userId)
countTodayRequestsBySender(u) ==
    Cardinality({r \in DOMAIN requests : requests[r].sender = u})

\* the unique index {sender: 1, recipient: 1}
DuplicateKey(s, r) ==
    \E x \in DOMAIN requests : requests[x].sender = s /\ requests[x].recipient = r

RequestCall(op, u, r) ==
    [op |-> op, user |-> u, req |-> r, res |-> 0, doc |-> requests[r]]

RequestDone(w, code) ==
    Goto(w, "done", [op |-> loc[w].op, user |-> loc[w].user, req |-> loc[w].req,
                     res |-> code])

\* sendRequest: the self check and Block.hasBlockBetween
SendRequestStart(w, s, r, anon) ==
    /\ Start(w)
    /\ LET l == [op |-> "sendRequest", user |-> s, recipient |-> r, anon |-> anon,
                 req |-> NoId, res |-> 0]
       IN  IF s = r THEN Goto(w, "done", [l EXCEPT !.res = 400])
           ELSE IF hasBlockBetween(s, r) THEN Goto(w, "done", [l EXCEPT !.res = 403])
           ELSE Goto(w, "request_exists", l)
    /\ UNCHANGED <<cfg, requests, conversations, messages, blocks, orders, gate, packs, events, sockets>>

SendRequestExists(w) ==
    /\ pc[w] = "request_exists"
    /\ IF existsBetweenUsers(loc[w].user, loc[w].recipient)
       THEN Goto(w, "done", [loc[w] EXCEPT !.res = 409])
       ELSE Goto(w, "request_quota", loc[w])
    /\ UNCHANGED <<cfg, requests, conversations, messages, blocks, orders, ops, gate, packs, events, sockets>>

SendRequestQuota(w) ==
    /\ pc[w] = "request_quota"
    /\ IF countTodayRequestsBySender(loc[w].user) >= cfg.dailyFreeRequests
       THEN Goto(w, "done", [loc[w] EXCEPT !.res = 429])
       ELSE Goto(w, "request_create", loc[w])
    /\ UNCHANGED <<cfg, requests, conversations, messages, blocks, orders, ops, gate, packs, events, sockets>>

\* MessageRequest.create({...})
SendRequestCreate(w) ==
    /\ pc[w] = "request_create"
    /\ LET l == loc[w]
       IN  IF DuplicateKey(l.user, l.recipient)
           THEN /\ Goto(w, "done", [l EXCEPT !.res = 500])
                /\ UNCHANGED requests
           ELSE /\ requests' = Append(requests, NewRequest(l.user, l.recipient, l.anon))
                /\ Goto(w, "done", [l EXCEPT !.req = Len(requests) + 1, !.res = 201])
    /\ UNCHANGED <<cfg, conversations, messages, blocks, orders, ops, gate, packs, events, sockets>>

\* acceptRequest: MessageRequest.findOne({_id, recipient, status: 'pending'})
\* and the expiry check on the loaded document
AcceptFind(w, u, r) ==
    /\ Start(w)
    /\ LET l == RequestCall("acceptRequest", u, r)
       IN  IF ~(requests[r].recipient = u /\ requests[r].status = "pending")
           THEN Goto(w, "done", [op |-> "acceptRequest", user |-> u, req |-> r, res |-> 404])
           ELSE IF requests[r].expired THEN Goto(w, "accept_expire", l)
           ELSE Goto(w, "accept_conversation", l)
    /\ UNCHANGED <<cfg, requests, conversations, messages, blocks, orders, gate, packs, events, sockets>>

\* request.status = 'expired'; await request.save()
AcceptExpire(w) ==
    /\ pc[w] = "accept_expire"
    /\ requests' = [requests EXCEPT ![loc[w].req].status = "expired"]
    /\ RequestDone(w, 400)
    /\ UNCHANGED <<cfg, conversations, messages, blocks, orders, ops, gate, packs, events, sockets>>

\* Conversation.create({...})
AcceptConversation(w) ==
    /\ pc[w] = "accept_conversation"
    /\ LET l == loc[w]
           d == NewConversation(l.doc, l.req)
       IN  /\ conversations' = Append(conversations, d)
           /\ Goto(w, "accept_message",
                   l @@ [conv |-> Len(conversations) + 1, base |-> d, cdoc |-> d])
    /\ UNCHANGED <<cfg, requests, messages, blocks, orders, ops, gate, packs, events, sockets>>

\* Message.create({conversation, sender, recipient, content: initialMessage})
AcceptMessage(w) ==
    /\ pc[w] = "accept_message"
    /\ LET l == loc[w]
       IN  messages' = Append(messages, NewMessage(l.conv, l.doc.sender, l.user, "text"))
    /\ Goto(w, "accept_update", loc[w])
    /\ UNCHANGED <<cfg, requests, conversations, blocks, orders, ops, gate, packs, events, sockets>>

\* conversation.updateLastMessage(request.initialMessage, request.sender._id)
AcceptUpdate(w) ==
    /\ pc[w] = "accept_update"
    /\ LET l == loc[w]
           d == updateLastMessage(l.cdoc, l.doc.sender)
       IN  IF SaveOk(conversations[l.conv], l.base, d)
           THEN /\ SaveConversation(w, d)
                /\ Goto(w, "accept_save", [l EXCEPT !.cdoc = d, !.base = d])
           ELSE /\ RequestDone(w, 500)
                /\ UNCHANGED conversations
    /\ UNCHANGED <<cfg, requests, messages, blocks, orders, ops, gate, packs, events, sockets>>

\* request.accept(conversation._id): save() writes status and conversation
AcceptSave(w) ==
    /\ pc[w] = "accept_save"
    /\ LET l == loc[w]
           d == preSave(accept(l.doc, l.conv))
       IN  requests' = [requests EXCEPT ![l.req].status = d.status,
                                        ![l.req].conversation = d.conversation]
    /\ Goto(w, "done", [op |-> "acceptRequest", user |-> loc[w].user, req |-> loc[w].req,
                        conv |-> loc[w].conv, res |-> 200])
    /\ UNCHANGED <<cfg, conversations, messages, blocks, orders, ops, gate, packs, events, sockets>>

\* rejectRequest: findOne({_id, recipient, status: 'pending'})
RejectFind(w, u, r) ==
    /\ Start(w)
    /\ IF requests[r].recipient = u /\ requests[r].status = "pending"
       THEN Goto(w, "reject_save", RequestCall("rejectRequest", u, r))
       ELSE Goto(w, "done", [op |-> "rejectRequest", user |-> u, req |-> r, res |-> 404])
    /\ UNCHANGED <<cfg, requests, conversations, messages, blocks, orders, gate, packs, events, sockets>>

\* request.reject()
RejectSave(w) ==
    /\ pc[w] = "reject_save"
    /\ LET d == preSave([loc[w].doc EXCEPT !.status = "rejected"])
       IN  requests' = [requests EXCEPT ![loc[w].req].status = d.status]
    /\ RequestDone(w, 200)
    /\ UNCHANGED <<cfg, conversations, messages, blocks, orders, ops, gate, packs, events, sockets>>

\* cancelRequest: findOne({_id, sender, status: 'pending'})
CancelFind(w, u, r) ==
    /\ Start(w)
    /\ IF requests[r].sender = u /\ requests[r].status = "pending"
       THEN Goto(w, "cancel_save", RequestCall("cancelRequest", u, r))
       ELSE Goto(w, "done", [op |-> "cancelRequest", user |-> u, req |-> r, res |-> 404])
    /\ UNCHANGED <<cfg, requests, conversations, messages, blocks, orders, gate, packs, events, sockets>>

\* request.cancel(): the status test is on the loaded document
CancelSave(w) ==
    /\ pc[w] = "cancel_save"
    /\ IF loc[w].doc.status # "pending"
       THEN /\ RequestDone(w, 500)
            /\ UNCHANGED requests
       ELSE LET d == preSave([loc[w].doc EXCEPT !.status = "cancelled"])
            IN  /\ requests' = [requests EXCEPT ![loc[w].req].status = d.status]
                /\ RequestDone(w, 200)
    /\ UNCHANGED <<cfg, conversations, messages, blocks, orders, ops, gate, packs, events, sockets>>

\* markAsRead (request): findOne({_id, recipient})
ReadFind(w, u, r) ==
    /\ Start(w)
    /\ IF requests[r].recipient # u
       THEN Goto(w, "done", [op |-> "markAsRead", user |-> u, req |-> r, res |-> 404])
       ELSE IF requests[r].isReadByRecipient
       THEN Goto(w, "done", [op |-> "markAsRead", user |-> u, req |-> r, res |-> 200])
       ELSE Goto(w, "read_save", RequestCall("markAsRead", u, r))
    /\ UNCHANGED <<cfg, requests, conversations, messages, blocks, orders, gate, packs, events, sockets>>

\* request.markAsRead(): the pre-save hook runs on the loaded document with
\* the time of the save, and a status it changes is written as well
ReadSave(w) ==
    /\ pc[w] = "read_save"
    /\ LET r == loc[w].req
           d == preSave([loc[w].doc EXCEPT !.isReadByRecipient = TRUE,
                                           !.expired = requests[r].expired])
       IN  requests' = [requests EXCEPT
               ![r].isReadByRecipient = TRUE,
               ![r].status = IF d.status # loc[w].doc.status THEN d.status ELSE @]
    /\ RequestDone(w, 200)
    /\ UNCHANGED <<cfg, conversations, messages, blocks, orders, ops, gate, packs, events, sockets>>

\* the hourly cron job: MessageRequest.expireOldRequests()
ExpireOldRequests ==
    /\ \E r \in DOMAIN requests : requests[r].status = "pending" /\ requests[r].expired
    /\ requests' = [r \in DOMAIN requests |->
           IF requests[r].status = "pending" /\ requests[r].expired
           THEN [requests[r] EXCEPT !.status = "expired"]
           ELSE requests[r]]
    /\ UNCHANGED <<cfg, conversations, messages, blocks, orders, pc, loc, ops, gate, packs, events, sockets>>

\* time passes the expiresAt of request r
Tick(r) ==
    /\ ~requests[r].expired
    /\ requests' = [requests EXCEPT ![r].expired = TRUE]
    /\ UNCHANGED <<cfg, conversations, messages, blocks, orders, pc, loc, ops, gate, packs, events, sockets>>

RequestStep(w) ==
    \/ \E s \in Users, r \in Users, anon \in BOOLEAN : SendRequestStart(w, s, r, anon)
    \/ SendRequestExists(w) \/ SendRequestQuota(w) \/ SendRequestCreate(w)
    \/ \E u \in Users, r \in DOMAIN requests : AcceptFind(w, u, r)
    \/ AcceptExpire(w) \/ AcceptConversation(w) \/ AcceptMessage(w)
    \/ AcceptUpdate(w) \/ AcceptSave(w)
    \/ \E u \in Users, r \in DOMAIN requests : RejectFind(w, u, r)
    \/ RejectSave(w)
    \/ \E u \in Users, r \in DOMAIN requests : CancelFind(w, u, r)
    \/ CancelSave(w)
    \/ \E u \in Users, r \in DOMAIN requests : ReadFind(w, u, r)
    \/ ReadSave(w)

----------------------------------------------------------------------------
(* ReqSpec: the request lifecycle, started on an empty store *)

ReqInit ==
    /\ cfg \in {c \in Configs : c.isEnabled /\ c.freeMessageLimit = MaxFreeLimit}
    /\ requests = << >>
    /\ conversations = << >>
    /\ messages = << >>
    /\ blocks = {}
    /\ orders = << >>
    /\ pc = [w \in Workers |-> "idle"]
    /\ loc = [w \in Workers |-> Idle]
    /\ ops = MaxReqOps
    /\ gate = GateIdle
    /\ packs = << >>
    /\ events = << >>
    /\ sockets = {}

ReqNext ==
    \/ \E w \in Workers : RequestStep(w)
    \/ \E w \in Workers : BlockStep(w)
    \/ \E r \in DOMAIN requests : Tick(r)
    \/ ExpireOldRequests

ReqSpec == ReqInit /\ [][ReqNext]_vars

----------------------------------------------------------------------------
(* Request packs: createPackOrder, purchasePack, the payment webhooks and   *)
(* the pack expiry job.  The payment of order o carries o as its paymentId. *)

\* createOrder(pack.priceInPaisa, 'INR', {packId, userId, ...})
NewPackOrder(u) ==
    [conversation |-> NoId, user |-> u, status |-> "created", amount |-> PackPrice]

\* PurchasedPack.create({user, requestCount, requestsRemaining, paymentId, orderId, ...})
NewPack(u, o) ==
    [user |-> u, orderId |-> o, paymentId |-> o,
     requestCount |-> PackRequestCount, requestsRemaining |-> PackRequestCount,
     status |-> "active",
     expired |-> FALSE]          \* expiresAt < new Date()

\* PurchasedPack.getTotalRemainingRequests(userId)
RECURSIVE SumRemaining(_, _)
SumRemaining(u, n) ==
    IF n = 0 THEN 0
    ELSE SumRemaining(u, n - 1)
         + (IF packs[n].user = u /\ packs[n].status = "active" /\ ~packs[n].expired
            THEN packs[n].requestsRemaining ELSE 0)

getTotalRemainingRequests(u) == SumRemaining(u, Len(packs))

\* createPackOrder
CreatePackOrder(w, u) ==
    /\ Start(w)
    /\ Len(orders) < MaxOrders
    /\ orders' = Append(orders, NewPackOrder(u))
    /\ UNCHANGED <<cfg, requests, conversations, messages, blocks, pc, loc, gate, packs, events, sockets>>

\* purchasePack up to and including verifyPayment(orderId, paymentId, signature)
PurchaseLoad(w, u, o, signatureValid) ==
    /\ Start(w)
    /\ o \in DOMAIN orders
    /\ LET l == [op |-> "purchasePack", user |-> u, order |-> o, res |-> 0]
       IN  IF ~signatureValid THEN Goto(w, "done", [l EXCEPT !.res = 400])
           ELSE Goto(w, "purchase_fetch", l)
    /\ UNCHANGED <<cfg, requests, conversations, messages, blocks, orders, gate, packs, events, sockets>>

\* getPaymentDetails(paymentId), the status check and the amount check
PurchaseFetch(w) ==
    /\ pc[w] = "purchase_fetch"
    /\ LET o == orders[loc[w].order]
       IN  IF o.status \notin {"captured", "authorized"}
           THEN Goto(w, "done", [loc[w] EXCEPT !.res = 400])
           ELSE IF o.amount # PackPrice
           THEN Goto(w, "done", [loc[w] EXCEPT !.res = 400])
           ELSE Goto(w, "purchase_find", loc[w])
    /\ UNCHANGED <<cfg, requests, conversations, messages, blocks, orders, ops, gate, packs, events, sockets>>

\* PurchasedPack.findOne({user, paymentId, status: 'active'})
PurchaseFind(w) ==
    /\ pc[w] = "purchase_find"
    /\ IF \E p \in DOMAIN packs :
             /\ packs[p].user = loc[w].user
             /\ packs[p].paymentId = loc[w].order
             /\ packs[p].status = "active"
       THEN Goto(w, "done", [loc[w] EXCEPT !.res = 200])
       ELSE Goto(w, "purchase_create", loc[w])
    /\ UNCHANGED <<cfg, requests, conversations, messages, blocks, orders, ops, gate, packs, events, sockets>>

PurchaseCreate(w) ==
    /\ pc[w] = "purchase_create"
    /\ packs' = Append(packs, NewPack(loc[w].user, loc[w].order))
    /\ Goto(w, "done", [loc[w] EXCEPT !.res = 200])
    /\ UNCHANGED <<cfg, requests, conversations, messages, blocks, orders, ops, gate, events, sockets>>

\* the packs PurchasedPack.findOne({paymentId, status}) can return, status
\* being 'active' or {$ne: 'active'}
FindByPayment(o, active) ==
    {p \in DOMAIN packs :
        packs[p].paymentId = o /\ (packs[p].status = "active") = active}

\* the packs PurchasedPack.findOne({orderId}) can return
FindByOrder(o) == {p \in DOMAIN packs : packs[p].orderId = o}

First(S) == CHOOSE x \in S : \A y \in S : x <= y

\* handlePaymentCaptured (webhook payment.captured, or order.paid through
\* handleOrderPaid) for the payment of order o: the three findOne calls
CapturedFind(w, o) ==
    /\ Start(w)
    /\ o \in DOMAIN orders
    /\ orders[o].status = "captured"
    /\ LET l == [op |-> "handlePaymentCaptured", order |-> o, res |-> 200]
       IN  IF FindByPayment(o, FALSE) # {}
           THEN Goto(w, "captured_save",
                     l @@ [pack |-> First(FindByPayment(o, FALSE)), byOrder |-> FALSE])
           ELSE IF FindByPayment(o, TRUE) # {} THEN Goto(w, "done", l)
           ELSE IF FindByOrder(o) # {}
           THEN Goto(w, "captured_save",
                     l @@ [pack |-> First(FindByOrder(o)), byOrder |-> TRUE])
           ELSE Goto(w, "done", l)
    /\ UNCHANGED <<cfg, requests, conversations, messages, blocks, orders, gate, packs, events, sockets>>

\* handleRazorpayWebhook for a payment.captured event about the payment of
\* order o: the signature checks, then handlePaymentCaptured
handleRazorpayWebhook(w, o, signatureValid) ==
    IF ~signatureValid
    THEN /\ Start(w)
         /\ o \in DOMAIN orders
         /\ Goto(w, "done", [op |-> "handleRazorpayWebhook", order |-> o, res |-> 400])
         /\ UNCHANGED <<cfg, requests, conversations, messages, blocks, orders, gate, packs,
                        events, sockets>>
    ELSE CapturedFind(w, o)

\* the save of handlePaymentCaptured: a purchase found by paymentId is set
\* active with requestsRemaining = requestCount; one found by orderId is set
\* active and given the paymentId
CapturedSave(w) ==
    /\ pc[w] = "captured_save"
    /\ LET p == loc[w].pack
       IN  IF loc[w].byOrder
           THEN packs' = [packs EXCEPT ![p].status = "active", ![p].paymentId = loc[w].order]
           ELSE packs' = [packs EXCEPT ![p].status = "active",
                                       ![p].requestsRemaining = packs[p].requestCount]
    /\ Goto(w, "done", [op |-> loc[w].op, order |-> loc[w].order, res |-> 200])
    /\ UNCHANGED <<cfg, requests, conversations, messages, blocks, orders, ops, gate, events, sockets>>

\* handleRefundCreated for a full refund of the payment of order o
RefundCreated(w, o) ==
    /\ Start(w)
    /\ o \in DOMAIN orders
    /\ orders[o].status = "captured"
    /\ IF FindByPayment(o, TRUE) = {} THEN UNCHANGED packs
       ELSE LET p == First(FindByPayment(o, TRUE))
                requestsToDeduct == packs[p].requestsRemaining
            IN  packs' = [packs EXCEPT
                             ![p].requestsRemaining = @ - requestsToDeduct,
                             ![p].status = "refunded"]
    /\ UNCHANGED <<cfg, requests, conversations, messages, blocks, orders, pc, loc, gate, events, sockets>>

\* time passes the expiresAt of pack p
PackTick(p) ==
    /\ ~packs[p].expired
    /\ packs' = [packs EXCEPT ![p].expired = TRUE]
    /\ UNCHANGED <<cfg, requests, conversations, messages, blocks, orders, pc, loc, ops, gate, events, sockets>>

\* the cron job: PurchasedPack.expireOldPacks()
ExpireOldPacks ==
    /\ \E p \in DOMAIN packs : packs[p].status = "active" /\ packs[p].expired
    /\ packs' = [p \in DOMAIN packs |->
           IF packs[p].status = "active" /\ packs[p].expired
           THEN [packs[p] EXCEPT !.status = "expired"]
           ELSE packs[p]]
    /\ UNCHANGED <<cfg, requests, conversations, messages, blocks, orders, pc, loc, ops, gate, events, sockets>>

PurchaseStep(w) ==
    \/ \E u \in Users : CreatePackOrder(w, u)
    \/ \E u \in Users, o \in DOMAIN orders, sig \in BOOLEAN : PurchaseLoad(w, u, o, sig)
    \/ PurchaseFetch(w) \/ PurchaseFind(w) \/ PurchaseCreate(w)

WebhookStep(w) ==
    \/ \E o \in DOMAIN orders, sig \in BOOLEAN : handleRazorpayWebhook(w, o, sig)
    \/ CapturedSave(w)
    \/ \E o \in DOMAIN orders : RefundCreated(w, o)

----------------------------------------------------------------------------
(* PackSpec: buying request packs, started on an empty store *)

PackInit ==
    /\ cfg \in {c \in Configs : c.isEnabled /\ c.freeMessageLimit = MaxFreeLimit}
    /\ requests = << >>
    /\ conversations = << >>
    /\ messages = << >>
    /\ blocks = {}
    /\ orders = << >>
    /\ pc = [w \in Workers |-> "idle"]
    /\ loc = [w \in Workers |-> Idle]
    /\ ops = MaxPackOps
    /\ gate = GateIdle
    /\ packs = << >>
    /\ events = << >>
    /\ sockets = {}

PackNext ==
    \/ \E w \in Workers : PurchaseStep(w)
    \/ \E w \in Workers : WebhookStep(w)
    \/ \E o \in DOMAIN orders : ClientPays(o)
    \/ \E p \in DOMAIN packs : PackTick(p)
    \/ ExpireOldPacks

PackSpec == PackInit /\ [][PackNext]_vars

----------------------------------------------------------------------------
(* QuotaSpec: sendRequest among three users, one of whom may buy a pack *)

QuotaInit ==
    /\ cfg \in [isEnabled : {TRUE}, freeMessageLimit : {MaxFreeLimit},
                 dailyFreeRequests : 1..MaxDailyFree,
                 pricePerMessageInPaisa : {DefaultPrice}]
    /\ requests = << >>
    /\ conversations = << >>
    /\ messages = << >>
    /\ blocks = {}
    /\ orders = << >>
    /\ pc = [w \in Workers |-> "idle"]
    /\ loc = [w \in Workers |-> Idle]
    /\ ops = MaxQuotaOps
    /\ gate = GateIdle
    /\ packs = << >>
    /\ events = << >>
    /\ sockets = {}

QuotaStep(w) ==
    \/ \E s \in QuotaUsers, r \in QuotaUsers : SendRequestStart(w, s, r, TRUE)
    \/ SendRequestExists(w) \/ SendRequestQuota(w) \/ SendRequestCreate(w)
    \/ PurchaseStep(w)

QuotaNext ==
    \/ \E w \in Workers : QuotaStep(w)
    \/ \E o \in DOMAIN orders : ClientPays(o)

QuotaSpec == QuotaInit /\ [][QuotaNext]_vars

----------------------------------------------------------------------------
(* GateSpec: the payment-gate functions applied to drawn inputs *)

\* a conversation document with the given counters and reveal state
GateDoc(count, cycles, revealed) ==
    [NewConversation(NewRequest(1, 2, TRUE), 1) EXCEPT
        !.participants[1].isRevealed = revealed,
        !.isAnonymous = ~revealed,
        !.initiatorMessageCount = count,
        !.initiatorPaidCycles = cycles]

GateInit ==
    /\ cfg \in {c \in Configs : c.isEnabled /\ c.freeMessageLimit = MaxFreeLimit}
    /\ requests = << >>
    /\ conversations = << >>
    /\ messages = << >>
    /\ blocks = {}
    /\ orders = << >>
    /\ pc = [w \in Workers |-> "idle"]
    /\ loc = [w \in Workers |-> Idle]
    /\ ops = 0
    /\ packs = << >>
    /\ events = << >>
    /\ sockets = {}
    /\ \E count \in 0..MaxCount, cycles \in 0..MaxCycles, limit \in 0..MaxFreeLimit,
          enabled \in BOOLEAN, revealed \in BOOLEAN :
         gate = [phase |-> "in", count |-> count, cycles |-> cycles, limit |-> limit,
                 enabled |-> enabled, revealed |-> revealed]

\* limit is the configured unrevealedChatPayment.freeMessageLimit; the model
\* methods receive it as their argument, the handlers read it from the config
ApplyGate ==
    /\ gate.phase = "in"
    /\ LET doc == GateDoc(gate.count, gate.cycles, gate.revealed)
           config == [isEnabled |-> gate.enabled, freeMessageLimit |-> gate.limit,
                      dailyFreeRequests |-> DailyFreeRequests,
                      pricePerMessageInPaisa |-> DefaultPrice]
       IN  gate' = [phase |-> "out", count |-> gate.count, cycles |-> gate.cycles,
                    limit |-> gate.limit, enabled |-> gate.enabled,
                    revealed |-> gate.revealed,
                    needsToPay |-> initiatorNeedsToPay(doc, gate.limit),
                    statsNeedsToPay |-> getInitiatorMessageStats(doc, gate.limit).needsToPay,
                    sendRejected |-> SendGate(doc, doc.initiator, config),
                    orderAllowed |-> OrderGate(doc, config)]
    /\ UNCHANGED <<cfg, requests, conversations, messages, blocks, orders, pc, loc, ops, packs, events, sockets>>

GateNext == ApplyGate

GateSpec == GateInit /\ [][GateNext]_vars

----------------------------------------------------------------------------
(* Message documents: delivery status and reactions *)

\* the in-memory effect of message.markAsRead()
messageMarkAsRead(doc) ==
    IF ~doc.isRead THEN [doc EXCEPT !.isRead = TRUE, !.deliveryStatus = "read"] ELSE doc

\* the in-memory effect of message.markAsDelivered()
markAsDelivered(doc) ==
    IF doc.deliveryStatus = "sent" THEN [doc EXCEPT !.deliveryStatus = "delivered"] ELSE doc

\* the filter of mark_delivered without the condition on deliveryStatus
DeliveredFilterAnyStatus(doc, u, ids, m) == m \in ids /\ doc.recipient = u

\* the filter of the updateMany of socket mark_delivered
DeliveredFilter(doc, u, ids, m) ==
    m \in ids /\ doc.recipient = u /\ doc.deliveryStatus = "sent"

\* the filter of the updateMany of socket mark_read
ReadFilter(doc, u, ids, m) == m \in ids /\ doc.recipient = u

\* Message.markAllAsRead(conversationId, userId)
markAllAsRead(c, u) ==
    [m \in DOMAIN messages |->
        IF messages[m].conversation = c /\ messages[m].recipient = u /\ ~messages[m].isRead
        THEN [messages[m] EXCEPT !.isRead = TRUE, !.deliveryStatus = "read"]
        ELSE messages[m]]

\* reactions.filter(r => r.user !== userId)
WithoutUser(rs, u) == SelectSeq(rs, LAMBDA r : r.user # u)

\* the in-memory effect of message.addReaction(userId, emoji) before the save
addReaction(doc, u, emoji) ==
    [doc EXCEPT !.reactions = Append(WithoutUser(@, u), [user |-> u, emoji |-> emoji])]

\* the in-memory effect of message.removeReaction(userId) before the save
removeReaction(doc, u) == [doc EXCEPT !.reactions = WithoutUser(@, u)]

MessageCall(op, u, m) == [op |-> op, user |-> u, msg |-> m, res |-> 0]

MessageDone(w, code) == Goto(w, "done", [loc[w] EXCEPT !.res = code])

\* socket.on('mark_delivered', messageIds): one updateMany, then the emit of
\* messages_delivered to the conversations of the messages named
MarkDelivered(w, u, ids) ==
    /\ Start(w)
    /\ LET matched == {m \in DOMAIN messages : DeliveredFilter(messages[m], u, ids, m)}
       IN  /\ messages' = [m \in DOMAIN messages |->
                              IF m \in matched
                              THEN [messages[m] EXCEPT !.deliveryStatus = "delivered"]
                              ELSE messages[m]]
           /\ Goto(w, "done", [op |-> "mark_delivered", user |-> u, ids |-> ids,
                               matched |-> matched, res |-> 200])
    /\ Emit(Event("messages_delivered", messages[CHOOSE m \in ids : TRUE].conversation,
                  NoId, u))
    /\ UNCHANGED <<cfg, requests, conversations, blocks, orders, gate, packs, sockets>>

\* socket.on('mark_read', {conversationId, messageIds}): the updateMany
MarkReadMessages(w, u, c, ids) ==
    /\ Start(w)
    /\ messages' = [m \in DOMAIN messages |->
                       IF ReadFilter(messages[m], u, ids, m)
                       THEN [messages[m] EXCEPT !.isRead = TRUE, !.deliveryStatus = "read"]
                       ELSE messages[m]]
    /\ Goto(w, "mark_read_conv", [op |-> "mark_read", user |-> u, conv |-> c,
                                  ids |-> ids, res |-> 0])
    /\ UNCHANGED <<cfg, requests, conversations, blocks, orders, gate, packs, events, sockets>>

\* Conversation.findById(conversationId), conversation.markAsRead(userId) and
\* the emit of messages_read
MarkReadConversation(w) ==
    /\ pc[w] = "mark_read_conv"
    /\ LET c == loc[w].conv
       IN  conversations' = [conversations EXCEPT
               ![c] = Merge(@, @, markAsRead(@, loc[w].user))]
    /\ Emit(Event("messages_read", loc[w].conv, NoId, loc[w].user))
    /\ MessageDone(w, 200)
    /\ UNCHANGED <<cfg, requests, messages, blocks, orders, ops, gate, packs, sockets>>

\* getMessages: Conversation.findOne and Message.getForConversation
GetMessagesLoad(w, u, c) ==
    /\ Start(w)
    /\ IF FindConversation(c, u, FALSE)
       THEN Goto(w, "get_mark_all", [op |-> "getMessages", user |-> u, conv |-> c, res |-> 0])
       ELSE Goto(w, "done", NotFound("getMessages", u, c))
    /\ UNCHANGED <<cfg, requests, conversations, messages, blocks, orders, gate, packs, events, sockets>>

\* Message.markAllAsRead(conversationId, req.userId)
GetMessagesMarkAll(w) ==
    /\ pc[w] = "get_mark_all"
    /\ messages' = markAllAsRead(loc[w].conv, loc[w].user)
    /\ Goto(w, "get_mark_conv", loc[w])
    /\ UNCHANGED <<cfg, requests, conversations, blocks, orders, ops, gate, packs, events, sockets>>

\* conversation.markAsRead(req.userId), the count and the response
GetMessagesMarkConversation(w) ==
    /\ pc[w] = "get_mark_conv"
    /\ LET c == loc[w].conv
       IN  conversations' = [conversations EXCEPT
               ![c] = Merge(@, @, markAsRead(@, loc[w].user))]
    /\ MessageDone(w, 200)
    /\ UNCHANGED <<cfg, requests, messages, blocks, orders, ops, gate, packs, events, sockets>>

\* message.markAsRead() on message m; no handler calls it, it is applied to
\* the stored document
MessageMarkAsRead(w, m) ==
    /\ Start(w)
    /\ messages' = [messages EXCEPT ![m] = messageMarkAsRead(@)]
    /\ Goto(w, "done", [op |-> "markAsRead", msg |-> m, res |-> 200])
    /\ UNCHANGED <<cfg, requests, conversations, blocks, orders, gate, packs, events, sockets>>

\* message.markAsDelivered() on message m, likewise
MessageMarkAsDelivered(w, m) ==
    /\ Start(w)
    /\ messages' = [messages EXCEPT ![m] = markAsDelivered(@)]
    /\ Goto(w, "done", [op |-> "markAsDelivered", msg |-> m, res |-> 200])
    /\ UNCHANGED <<cfg, requests, conversations, blocks, orders, gate, packs, events, sockets>>

\* socket add_reaction: Message.findById(messageId).  The HTTP addReaction of
\* a participant of the message's conversation goes the same way.
AddReactionLoad(w, u, m, emoji) ==
    /\ Start(w)
    /\ Goto(w, "add_reaction_save",
            MessageCall("addReaction", u, m) @@ [emoji |-> emoji, base |-> messages[m]])
    /\ UNCHANGED <<cfg, requests, conversations, messages, blocks, orders, gate, packs, events, sockets>>

\* the save of message.addReaction.  Assigning this.reactions marks the path
\* modified only when the filtered array differs from the loaded one; the
\* save is then a $set of the whole array, filtered on the loaded __v, which
\* it increments.  Otherwise the push alone is saved: a $push of the new
\* reaction that increments __v and carries no condition on it.
AddReactionSave(w) ==
    /\ pc[w] = "add_reaction_save"
    /\ LET l == loc[w]
           db == messages[l.msg]
           d == addReaction(l.base, l.user, l.emoji)
       IN  IF WithoutUser(l.base.reactions, l.user) = l.base.reactions
           THEN /\ messages' = [messages EXCEPT
                       ![l.msg].reactions = Append(@, [user |-> l.user, emoji |-> l.emoji]),
                       ![l.msg].v = @ + 1]
                /\ Emit(Event("message_reaction", db.conversation, l.msg, l.user))
                /\ MessageDone(w, 200)
           ELSE IF db.v = l.base.v
           THEN /\ messages' = [messages EXCEPT
                       ![l.msg].reactions = d.reactions, ![l.msg].v = @ + 1]
                /\ Emit(Event("message_reaction", db.conversation, l.msg, l.user))
                /\ MessageDone(w, 200)
           ELSE /\ MessageDone(w, 500)
                /\ UNCHANGED <<messages, events>>
    /\ UNCHANGED <<cfg, requests, conversations, blocks, orders, ops, gate, packs, sockets>>

\* removeReaction: Message.findById(messageId)
RemoveReactionLoad(w, u, m) ==
    /\ Start(w)
    /\ Goto(w, "remove_reaction_save",
            MessageCall("removeReaction", u, m) @@ [base |-> messages[m]])
    /\ UNCHANGED <<cfg, requests, conversations, messages, blocks, orders, gate, packs, events, sockets>>

\* the save of message.removeReaction: nothing to write when the user had no
\* reaction in the loaded document, else the $set of the whole array
RemoveReactionSave(w) ==
    /\ pc[w] = "remove_reaction_save"
    /\ LET l == loc[w]
           db == messages[l.msg]
           d == removeReaction(l.base, l.user)
       IN  IF d.reactions = l.base.reactions
           THEN /\ Emit(Event("reaction_removed", db.conversation, l.msg, l.user))
                /\ MessageDone(w, 200)
                /\ UNCHANGED messages
           ELSE IF db.v = l.base.v
           THEN /\ messages' = [messages EXCEPT
                       ![l.msg].reactions = d.reactions, ![l.msg].v = @ + 1]
                /\ Emit(Event("reaction_removed", db.conversation, l.msg, l.user))
                /\ MessageDone(w, 200)
           ELSE /\ MessageDone(w, 500)
                /\ UNCHANGED <<messages, events>>
    /\ UNCHANGED <<cfg, requests, conversations, blocks, orders, ops, gate, packs, sockets>>

IdSets == {ids \in SUBSET DOMAIN messages : ids # {}}

AckStep(w) ==
    \/ \E u \in Users, ids \in IdSets : MarkDelivered(w, u, ids)
    \/ \E u \in Users, c \in DOMAIN conversations, ids \in IdSets :
         MarkReadMessages(w, u, c, ids)
    \/ MarkReadConversation(w)
    \/ \E u \in Users, c \in DOMAIN conversations : GetMessagesLoad(w, u, c)
    \/ GetMessagesMarkAll(w) \/ GetMessagesMarkConversation(w)
    \/ \E m \in DOMAIN messages : MessageMarkAsRead(w, m)
    \/ \E m \in DOMAIN messages : MessageMarkAsDelivered(w, m)

ReactionStep(w) ==
    \/ \E u \in Users, m \in DOMAIN messages, emoji \in Emojis :
         AddReactionLoad(w, u, m, emoji)
    \/ AddReactionSave(w)
    \/ \E u \in Users, m \in DOMAIN messages : RemoveReactionLoad(w, u, m)
    \/ RemoveReactionSave(w)

----------------------------------------------------------------------------
(* MsgSpec: acknowledgements and reactions on the messages of a            *)
(* conversation in which each user has sent one message                    *)

MsgInit ==
    /\ cfg \in {c \in Configs : ~c.isEnabled /\ c.freeMessageLimit = MaxFreeLimit}
    /\ LET req == NewRequest(1, 2, FALSE)
       IN  /\ requests = << accept(req, 1) >>
           /\ conversations = << updateLastMessage(AcceptedConversation(req, 1), 2) >>
           /\ messages = << NewMessage(1, 1, 2, "text"), NewMessage(1, 2, 1, "text") >>
    /\ blocks = {}
    /\ orders = << >>
    /\ pc = [w \in Workers |-> "idle"]
    /\ loc = [w \in Workers |-> Idle]
    /\ ops = MaxMsgOps
    /\ gate = GateIdle
    /\ packs = << >>
    /\ events = << >>
    /\ sockets = {}

MsgNext ==
    \/ \E w \in Workers : AckStep(w)
    \/ \E w \in Workers : ReactionStep(w)

MsgSpec == MsgInit /\ [][MsgNext]_vars

----------------------------------------------------------------------------
(* Socket connections and presence *)

\* the sockets in room `user:${u}`: io.in(`user:${u}`).fetchSockets()
UserSockets(S, u) == {x \in S : x[2] = u}

\* io.on('connection'): the socket joins the room of its user
Connection(s, u) ==
    /\ ops > 0
    /\ ops' = ops - 1
    /\ s \notin {x[1] : x \in sockets}
    /\ \A x \in SocketIds : x < s => x \in {y[1] : y \in sockets}
    /\ sockets' = sockets \cup {<<s, u>>}
    /\ UNCHANGED <<cfg, requests, conversations, messages, blocks, orders, pc, loc, gate,
                   packs, events>>

\* socket.on('disconnect'): the socket has left its rooms when the handler
\* runs; the handler counts the sockets left in the room of the user
Disconnect(w, x) ==
    /\ Start(w)
    /\ x \in sockets
    /\ sockets' = sockets \ {x}
    /\ LET userSockets == UserSockets(sockets \ {x}, x[2])
           l == [op |-> "disconnect", user |-> x[2], offline |-> userSockets = {}]
       IN  IF userSockets = {}
           THEN Goto(w, "offline_find", l)
           ELSE Goto(w, "done", l)
    /\ UNCHANGED <<cfg, requests, conversations, messages, blocks, orders, gate, packs, events>>

\* Conversation.find({'participants.user': userId, status: 'active'}) has
\* answered: user_offline goes to the room of every conversation found
DisconnectBroadcast(w) ==
    /\ pc[w] = "offline_find"
    /\ LET u == loc[w].user
           found == SelectSeq([i \in 1..Len(conversations) |-> i],
                              LAMBDA c : /\ HasParticipant(conversations[c], u)
                                         /\ conversations[c].status = "active")
       IN  events' = events \o [k \in 1..Len(found) |->
                                   Event("user_offline", found[k], NoId, u)]
    /\ Goto(w, "done", loc[w])
    /\ UNCHANGED <<cfg, requests, conversations, messages, blocks, orders, ops, gate, packs,
                   sockets>>

PresenceInit ==
    /\ cfg \in {c \in Configs : ~c.isEnabled /\ c.freeMessageLimit = MaxFreeLimit}
    /\ LET req == NewRequest(1, 2, FALSE)
       IN  /\ requests = << accept(req, 1) >>
           /\ conversations = << AcceptedConversation(req, 1) >>
           /\ messages = << NewMessage(1, 1, 2, "text") >>
    /\ blocks = {}
    /\ orders = << >>
    /\ pc = [w \in Workers |-> "idle"]
    /\ loc = [w \in Workers |-> Idle]
    /\ ops = MaxPresenceOps
    /\ gate = GateIdle
    /\ packs = << >>
    /\ events = << >>
    /\ sockets = {}

PresenceStep(w) ==
    \/ \E x \in sockets : Disconnect(w, x)
    \/ DisconnectBroadcast(w)
    \/ \E u \in Users, t \in Users : BlockCreate(w, u, t)
    \/ BlockConversation(w)

PresenceNext ==
    \/ \E s \in SocketIds, u \in Users : Connection(s, u)
    \/ \E w \in Workers : PresenceStep(w)

PresenceSpec == PresenceInit /\ [][PresenceNext]_vars

----------------------------------------------------------------------------
(* Drawing on purchased packs: PurchasedPack.useFromPacks.  The packs of    *)
(* UseSpec carry expiresAt as a rank; `expired` says the rank has passed.   *)

\* a stored pack with the given expiry rank, balance and status
StoredPack(u, k, rank, remaining, status, expired) ==
    [expiresAt |-> rank]
        @@ [NewPack(u, k) EXCEPT !.requestsRemaining = remaining,
                                 !.status = status,
                                 !.expired = expired]

\* sort({expiresAt: 1}) over pack ids
ByExpiresAt(a, b) ==
    \/ packs[a].expiresAt < packs[b].expiresAt
    \/ packs[a].expiresAt = packs[b].expiresAt /\ a < b

\* PurchasedPack.getActivePacks(userId): the ids, oldest expiry first
getActivePacks(u) ==
    SortSeq(SelectSeq([i \in 1..Len(packs) |-> i],
                      LAMBDA i : /\ packs[i].user = u
                                 /\ packs[i].status = "active"
                                 /\ ~packs[i].expired),
            ByExpiresAt)

Min(a, b) == IF a < b THEN a ELSE b

\* the in-memory effect of pack.useRequests(count) on a copy that passes its
\* two checks
useRequests(doc, count) ==
    LET d1 == [doc EXCEPT !.requestsRemaining = @ - count]
    IN  IF d1.requestsRemaining = 0 THEN [d1 EXCEPT !.status = "exhausted"] ELSE d1

\* what is left of useFromPacks after a save: the break, the throw, or the
\* next pack of the list
UseContinue(w, l) ==
    IF l.remaining <= 0 THEN Goto(w, "done", [l EXCEPT !.res = 200])
    ELSE IF l.ids = << >> THEN Goto(w, "done", [l EXCEPT !.res = 500])
    ELSE Goto(w, "use_save", l)

\* useFromPacks(userId, count): getActivePacks has answered
UseFromPacksFind(w, u, count) ==
    /\ Start(w)
    /\ LET ids == getActivePacks(u)
       IN  UseContinue(w, [op |-> "useFromPacks", user |-> u, count |-> count,
                           remaining |-> count, ids |-> ids,
                           docs |-> [k \in 1..Len(ids) |-> packs[ids[k]]], res |-> 0])
    /\ UNCHANGED <<cfg, requests, conversations, messages, blocks, orders, gate, packs,
                   events, sockets>>

\* pack.useRequests(toUse) on the next loaded pack: save() writes the paths
\* the call changed on its copy
UseFromPacksSave(w) ==
    /\ pc[w] = "use_save"
    /\ LET l == loc[w]
           p == Head(l.ids)
           doc == Head(l.docs)
           toUse == Min(l.remaining, doc.requestsRemaining)
           d == useRequests(doc, toUse)
       IN  /\ packs' = [packs EXCEPT
                  ![p].requestsRemaining =
                      IF d.requestsRemaining # doc.requestsRemaining
                      THEN d.requestsRemaining ELSE @,
                  ![p].status = IF d.status # doc.status THEN d.status ELSE @]
           /\ UseContinue(w, [l EXCEPT !.remaining = @ - toUse,
                                       !.ids = Tail(@), !.docs = Tail(@)])
    /\ UNCHANGED <<cfg, requests, conversations, messages, blocks, orders, ops, gate,
                   events, sockets>>

\* time passes the expiresAt of pack p, the earlier ranks having passed
UseTick(p) ==
    /\ ~packs[p].expired
    /\ \A q \in DOMAIN packs : packs[q].expiresAt < packs[p].expiresAt => packs[q].expired
    /\ packs' = [packs EXCEPT ![p].expired = TRUE]
    /\ UNCHANGED <<cfg, requests, conversations, messages, blocks, orders, pc, loc, ops, gate,
                   events, sockets>>

\* the packs a user can hold: active ones have requests left, exhausted ones none
StoredPacks ==
    {ps \in [1..MaxPacks -> [rank : 1..MaxPacks, remaining : 0..PackRequestCount,
                             expired : BOOLEAN]] :
        /\ \A i, j \in 1..MaxPacks : i # j => ps[i].rank # ps[j].rank
        /\ \A i, j \in 1..MaxPacks :
              ps[i].rank < ps[j].rank /\ ps[j].expired => ps[i].expired}

UseInit ==
    /\ cfg \in {c \in Configs : c.isEnabled /\ c.freeMessageLimit = MaxFreeLimit}
    /\ requests = << >>
    /\ conversations = << >>
    /\ messages = << >>
    /\ blocks = {}
    /\ orders = << >>
    /\ pc = [w \in Workers |-> "idle"]
    /\ loc = [w \in Workers |-> Idle]
    /\ ops = MaxUseOps
    /\ gate = GateIdle
    /\ \E ps \in StoredPacks :
          packs = [k \in 1..MaxPacks |->
                      StoredPack(1, k, ps[k].rank, ps[k].remaining,
                                 IF ps[k].remaining = 0 THEN "exhausted" ELSE "active",
                                 ps[k].expired)]
    /\ events = << >>
    /\ sockets = {}

UseNext ==
    \/ \E w \in Workers, count \in 1..MaxUse : UseFromPacksFind(w, 1, count)
    \/ \E w \in Workers : UseFromPacksSave(w)
    \/ \E p \in DOMAIN packs : UseTick(p)
    \/ ExpireOldPacks

UseSpec == UseInit /\ [][UseNext]_vars

----------------------------------------------------------------------------
(* CreditSpec: user 1 is the unrevealed initiator of two conversations and  *)
(* may also order a request pack; any order can be named in a verify call   *)

CreditInit ==
    /\ cfg \in [isEnabled : {TRUE}, freeMessageLimit : 1..MaxFreeLimit,
                 dailyFreeRequests : {DailyFreeRequests},
                 pricePerMessageInPaisa : Prices]
    /\ LET reqX == NewRequest(1, 2, TRUE)
           reqY == NewRequest(1, 3, TRUE)
       IN  /\ requests = << accept(reqX, 1), accept(reqY, 2) >>
           /\ conversations = << AcceptedConversation(reqX, 1), AcceptedConversation(reqY, 2) >>
           /\ messages = << NewMessage(1, 1, 2, "text"), NewMessage(2, 1, 3, "text") >>
    /\ blocks = {}
    /\ orders = << >>
    /\ pc = [w \in Workers |-> "idle"]
    /\ loc = [w \in Workers |-> Idle]
    /\ ops = MaxCreditOps
    /\ gate = GateIdle
    /\ packs = << >>
    /\ events = << >>
    /\ sockets = {}

CreditStep(w) ==
    \/ \E c \in DOMAIN conversations : CreateOrderLoad(w, 1, c)
    \/ CreateOrderMint(w)
    \/ CreatePackOrder(w, 1)
    \/ \E c \in DOMAIN conversations, o \in DOMAIN orders, sig \in BOOLEAN :
         VerifyLoad(w, 1, c, o, sig)
    \/ VerifyFetch(w) \/ VerifyRecord(w)

CreditNext ==
    \/ \E w \in Workers : CreditStep(w)
    \/ \E o \in DOMAIN orders : ClientPays(o)

CreditSpec == CreditInit /\ [][CreditNext]_vars

----------------------------------------------------------------------------
(* ReactSpec: reactions on the messages of a conversation of users 1 and 2, *)
(* added by them and by user 3 over HTTP and over the socket                *)

\* addReaction (HTTP): Message.findById, then the participant check
\* Conversation.findOne({_id: message.conversation, 'participants.user': userId})
AddReactionHttp(w, u, m, emoji) ==
    /\ Start(w)
    /\ LET l == MessageCall("addReaction", u, m) @@ [emoji |-> emoji, base |-> messages[m]]
       IN  IF ~FindConversation(messages[m].conversation, u, FALSE)
           THEN Goto(w, "done", [l EXCEPT !.res = 403])
           ELSE Goto(w, "add_reaction_save", l)
    /\ UNCHANGED <<cfg, requests, conversations, messages, blocks, orders, gate, packs,
                   events, sockets>>

ReactInit ==
    /\ cfg \in {c \in Configs : ~c.isEnabled /\ c.freeMessageLimit = MaxFreeLimit}
    /\ LET req == NewRequest(1, 2, FALSE)
       IN  /\ requests = << accept(req, 1) >>
           /\ conversations = << updateLastMessage(AcceptedConversation(req, 1), 2) >>
           /\ messages = << NewMessage(1, 1, 2, "text"), NewMessage(1, 2, 1, "text") >>
    /\ blocks = {}
    /\ orders = << >>
    /\ pc = [w \in Workers |-> "idle"]
    /\ loc = [w \in Workers |-> Idle]
    /\ ops = MaxReactOps
    /\ gate = GateIdle
    /\ packs = << >>
    /\ events = << >>
    /\ sockets = {}

ReactStep(w) ==
    \/ \E u \in QuotaUsers, m \in DOMAIN messages, emoji \in Emojis :
         AddReactionHttp(w, u, m, emoji)
    \/ \E u \in QuotaUsers, m \in DOMAIN messages, emoji \in Emojis :
         AddReactionLoad(w, u, m, emoji)
    \/ AddReactionSave(w)

ReactNext == \E w \in Workers : ReactStep(w)

ReactSpec == ReactInit /\ [][ReactNext]_vars

----------------------------------------------------------------------------
(* Properties *)

Allowed(limit, cycles) == limit * (cycles + 1)

Initiator(c) == conversations[c].initiator

InitiatorRevealed(c) == isUserRevealed(conversations[c], Initiator(c))

\* two overlapping sendMessage calls of the unrevealed initiator on one
\* conversation, the first of which loaded the last free count
RacingSends(p, q) ==
    /\ p # q
    /\ pc[p] = "done" /\ pc[q] = "done"
    /\ loc[p].op = "sendMessage" /\ loc[q].op = "sendMessage"
    /\ loc[p].conv = loc[q].conv
    /\ loc[p].user = Initiator(loc[p].conv) /\ loc[q].user = loc[p].user
    /\ loc[p].res \in {201, 402} /\ loc[q].res \in {201, 402}
    /\ cfg.isEnabled
    /\ ~loc[p].seenRevealed /\ ~loc[q].seenRevealed
    /\ loc[p].seenCycles = loc[q].seenCycles
    /\ loc[p].seenCount = Allowed(cfg.freeMessageLimit, loc[p].seenCycles) - 1
    /\ loc[q].seenCount \in {loc[p].seenCount, loc[p].seenCount + 1}

\* C1: of two concurrent sendMessage calls by the unrevealed initiator that
\* start at initiatorMessageCount = freeMessageLimit*(initiatorPaidCycles+1) - 1,
\* exactly one returns success and the other returns 402.
C1_OneOfTwoRacingSendsPays ==
    \A p \in Workers, q \in Workers :
        RacingSends(p, q) => {loc[p].res, loc[q].res} = {201, 402}

\* C2: while the gate is enabled, a conversation whose initiator is unrevealed
\* never has initiatorMessageCount above freeMessageLimit*(initiatorPaidCycles+1).
C2_CountWithinCeiling ==
    \A c \in DOMAIN conversations :
        (cfg.isEnabled /\ ~InitiatorRevealed(c)) =>
            conversations[c].initiatorMessageCount
                <= Allowed(cfg.freeMessageLimit, conversations[c].initiatorPaidCycles)

CapturedPayments(c) ==
    {o \in DOMAIN orders : orders[o].conversation = c /\ orders[o].status = "captured"}

\* C3: verifying the same payment again is a no-op, so a conversation never has
\* more paid cycles than captured payments made for it.
C3_OneCyclePerPayment ==
    \A c \in DOMAIN conversations :
        conversations[c].initiatorPaidCycles <= Cardinality(CapturedPayments(c))

ConversationsOf(r) == {c \in DOMAIN conversations : conversations[c].messageRequest = r}

\* C4: every accepted request has exactly one conversation created from it, with
\* the request's sender and recipient as its two participants, the sender as
\* initiator, and the request's conversation field referencing it.
C4_AcceptedHasOneConversation ==
    \A r \in DOMAIN requests :
        requests[r].status = "accepted" =>
            /\ Cardinality(ConversationsOf(r)) = 1
            /\ \A c \in ConversationsOf(r) :
                 /\ {conversations[c].participants[k].user : k \in 1..2}
                        = {requests[r].sender, requests[r].recipient}
                 /\ conversations[c].initiator = requests[r].sender
                 /\ requests[r].conversation = c

\* C5: two concurrent acceptRequest calls for the same pending request create
\* one conversation and one initial message between them.
C5_AcceptCreatesOnce ==
    \A r \in DOMAIN requests :
        /\ Cardinality(ConversationsOf(r)) <= 1
        /\ Cardinality({i \in DOMAIN messages :
                            messages[i].conversation \in ConversationsOf(r)}) <= 1

ActiveBetweenUsers(a, b) ==
    {r \in DOMAIN requests :
        /\ {requests[r].sender, requests[r].recipient} = {a, b}
        /\ requests[r].status \in {"pending", "accepted"}}

\* C6: between any two users there is at most one request that is pending or
\* accepted.
C6_OneActiveRequestPerPair ==
    \A a \in Users, b \in Users : Cardinality(ActiveBetweenUsers(a, b)) <= 1

\* C7: after every mutation, a conversation's isAnonymous is the negation of
\* "both participants are revealed".
C7_AnonymousIffNotBothRevealed ==
    \A c \in DOMAIN conversations :
        conversations[c].isAnonymous
            = ~(conversations[c].participants[1].isRevealed
                /\ conversations[c].participants[2].isRevealed)

\* an initiator has revealed in a conversation that was created anonymous,
\* and the reveal handler has finished
C7_Witness ==
    \E c \in DOMAIN conversations, w \in Workers :
        /\ requests[conversations[c].messageRequest].isAnonymous
        /\ ~conversations[c].isAnonymous
        /\ pc[w] = "done" /\ loc[w].op = "revealIdentity" /\ loc[w].res = 200

\* C8: a participant's isRevealed, once true, is true in every later state.
C8_RevealIsMonotonic ==
    [][\A c \in DOMAIN conversations, k \in 1..2 :
          conversations[c].participants[k].isRevealed
              => conversations'[c].participants[k].isRevealed]_vars

\* the initiator revealed through revealIdentity and an operation of the other
\* participant was applied afterwards
C8_Witness ==
    \E c \in DOMAIN conversations :
        /\ requests[conversations[c].messageRequest].isAnonymous
        /\ InitiatorRevealed(c)
        /\ conversations[c].lastSender # Initiator(c)
        /\ conversations[c].messageCount >= 3

UpdateLabels ==
    {"send_save", "socket_save", "reveal_update", "request_reveal_update", "accept_update"}

\* C9: initiatorMessageCount changes only by +1, and only in the step that
\* records a message of the initiator while the initiator is unrevealed.
C9_CountOnlyIncrements ==
    [][\A c \in DOMAIN conversations :
          conversations'[c].initiatorMessageCount # conversations[c].initiatorMessageCount
              => /\ conversations'[c].initiatorMessageCount
                        = conversations[c].initiatorMessageCount + 1
                 /\ ~InitiatorRevealed(c)
                 /\ \E w \in Workers :
                        /\ pc[w] \in UpdateLabels /\ pc'[w] # pc[w]
                        /\ loc[w].conv = c
                        /\ loc[w].user = Initiator(c)]_vars

GateFormula == ~gate.revealed /\ gate.count >= Allowed(gate.limit, gate.cycles)

UnrevealedSendCheck(w) ==
    /\ pc[w] = "send_check" /\ pc'[w] # "send_check"
    /\ loc[w].user = loc[w].doc.initiator
    /\ ~isUserRevealed(loc[w].doc, loc[w].doc.initiator)
    /\ ~hasBlockBetween(loc[w].user, getOtherParticipant(loc[w].doc, loc[w].user).user)

\* what C11 says about that step and about the step that records a payment
SendCheckAsScenario(w) ==
    LET l == loc[w]
        ceiling == Allowed(cfg.freeMessageLimit, l.doc.initiatorPaidCycles)
    IN  /\ l.doc.initiatorMessageCount < ceiling => pc'[w] = "send_create"
        /\ l.doc.initiatorMessageCount = ceiling =>
               /\ pc'[w] = "done"
               /\ loc'[w].res = 402
               /\ loc'[w].currentCount = ceiling
               /\ loc'[w].allowedMessages = ceiling
               /\ loc'[w].paidCycles = l.doc.initiatorPaidCycles
               /\ messages' = messages
               /\ conversations' = conversations

PaymentRaisesCeiling(w) ==
    (pc[w] = "verify_record" /\ pc'[w] = "done" /\ loc'[w].res = 200) =>
        LET l == loc[w]
        IN  /\ conversations'[l.conv].initiatorPaidCycles = l.doc.initiatorPaidCycles + 1
            /\ conversations'[l.conv].initiatorMessageCount
                   = conversations[l.conv].initiatorMessageCount

RowRevealed(doc, u) ==
    \E k \in 1..2 : doc.participants[k].user = u /\ doc.participants[k].isRevealed

\* C12: a sendMessage call that starts once the initiator's reveal is stored
\* loads the initiator as revealed, and a call that loaded the initiator as
\* revealed is never answered 402, whatever the counters are.
C12_RevealedNeverPays ==
    [][\A w \in Workers :
          /\ (pc'[w] = "send_check" /\ pc[w] # "send_check"
                  /\ RowRevealed(conversations[loc'[w].conv],
                                  conversations[loc'[w].conv].initiator))
                => RowRevealed(loc'[w].doc, loc'[w].doc.initiator)
          /\ (pc[w] = "send_check" /\ RowRevealed(loc[w].doc, loc[w].doc.initiator))
                => ~(pc'[w] = "done" /\ loc'[w].res = 402)]_vars

\* the initiator revealed at or above the ceiling of an enabled gate and then
\* sent a message successfully
C12_Witness ==
    \E w \in Workers :
        /\ pc[w] = "done" /\ loc[w].op = "sendMessage" /\ loc[w].res = 201
        /\ loc[w].user = conversations[loc[w].conv].initiator
        /\ requests[conversations[loc[w].conv].messageRequest].isAnonymous
        /\ loc[w].seenRevealed
        /\ cfg.isEnabled
        /\ loc[w].seenCount >= cfg.freeMessageLimit * (loc[w].seenCycles + 1)

\* C13: acceptRequest on a pending request past its expiresAt answers 400, stores
\* status expired and creates no conversation and no message, and the request
\* it answered so for never becomes accepted afterwards.
C13_ExpiredIsNeverAccepted ==
    [][\A w \in Workers :
          /\ (pc[w] = "accept_expire" /\ pc'[w] # "accept_expire") =>
                /\ pc'[w] = "done" /\ loc'[w].res = 400
                /\ requests'[loc[w].req].status = "expired"
                /\ conversations' = conversations
                /\ messages' = messages
          /\ (pc'[w] = "done" /\ loc'[w].op = "acceptRequest" /\ loc'[w].res = 400) =>
                requests'[loc'[w].req].status # "accepted"]_vars

Terminal == {"accepted", "rejected", "cancelled", "expired"}

\* worker w answers a call on request r in this step
Answers(w, op, code) ==
    pc[w] # "done" /\ pc'[w] = "done" /\ loc'[w].op = op /\ loc'[w].res = code

\* C14: accept and reject succeed only for the recipient and cancel only for the
\* sender, each on a request found pending, and an accepted, rejected, cancelled
\* or expired request keeps its status in every later step.
C14_TerminalStatus ==
    [][/\ \A w \in Workers :
            /\ Answers(w, "acceptRequest", 200) =>
                   loc[w].user = loc[w].doc.recipient /\ loc[w].doc.status = "pending"
            /\ Answers(w, "rejectRequest", 200) =>
                   loc[w].user = loc[w].doc.recipient /\ loc[w].doc.status = "pending"
            /\ Answers(w, "cancelRequest", 200) =>
                   loc[w].user = loc[w].doc.sender /\ loc[w].doc.status = "pending"
       /\ \A r \in DOMAIN requests :
            requests[r].status \in Terminal => requests'[r].status = requests[r].status]_vars

\* C15: sendRequest is rejected for quota only when the free allowance and the
\* pack balance are both used up; a sender past the free allowance who holds a
\* pack balance passes the quota check, and the request then created draws one
\* request from the packs.
C15_PackBalanceCounts ==
    [][\A w \in Workers :
          /\ (pc[w] = "request_quota" /\ pc'[w] # "request_quota") =>
                LET free == countTodayRequestsBySender(loc[w].user) < cfg.dailyFreeRequests
                    balance == getTotalRemainingRequests(loc[w].user)
                IN  IF free \/ balance > 0 THEN pc'[w] = "request_create"
                    ELSE pc'[w] = "done" /\ loc'[w].res = 429
          /\ (pc[w] = "request_create" /\ pc'[w] = "done" /\ loc'[w].res = 201
                  /\ countTodayRequestsBySender(loc[w].user) >= cfg.dailyFreeRequests
                  /\ getTotalRemainingRequests(loc[w].user) > 0) =>
                getTotalRemainingRequests(loc[w].user)' =
                    getTotalRemainingRequests(loc[w].user) - 1]_vars

\* the requests the packs user u bought stand for
PurchasedRequests(u) ==
    Cardinality({p \in DOMAIN packs : packs[p].user = u}) * PackRequestCount

\* C16: whatever the interleaving of a sender's sendRequest calls, the requests
\* the sender has created within the day never exceed the daily quota in force
\* (the free allowance plus what the sender bought).
C16_QuotaNeverExceeded ==
    \A u \in QuotaUsers :
        countTodayRequestsBySender(u) <= cfg.dailyFreeRequests + PurchasedRequests(u)

\* worker w ends a sendRequest call with the given error in this step, having
\* created nothing
RequestRefused(w, code) ==
    /\ pc'[w] = "done" /\ loc'[w].op = "sendRequest" /\ loc'[w].res = code
    /\ requests' = requests

PacksOfPayment(o) == {p \in DOMAIN packs : packs[p].paymentId = o}

\* C18: one payment credits its pack at most once: there is never a second
\* PurchasedPack for a payment, and no step gives a pack back requests it has
\* lost to use, expiry or refund.
C18_PaymentCreditsOnce ==
    [][/\ \A o \in DOMAIN orders : Cardinality(PacksOfPayment(o)') <= 1
       /\ \A p \in DOMAIN packs :
            /\ packs'[p].requestsRemaining <= packs[p].requestsRemaining
            /\ packs[p].status # "active" => packs'[p].status # "active"]_vars

\* a settled payment is a captured one: an authorized payment has not been
\* collected and may still be released
Settled == {"captured"}

\* worker w takes a step of verifyMessagePayment that finds one of the four
\* reasons to refuse: a caller who is not the initiator or an invalid
\* signature at the start of the call, an unsettled payment or an amount
\* other than the configured price once the payment has been fetched
VerifyMustRefuse(w) ==
    \/ /\ ops' # ops
       /\ loc'[w] # loc[w] \/ pc'[w] # pc[w]
       /\ loc'[w].op = "verifyMessagePayment"
       /\ loc'[w].res # 404
       /\ \/ conversations[loc'[w].conv].initiator # loc'[w].user
          \/ ~loc'[w].signature
    \/ /\ pc[w] = "verify_fetch"
       /\ pc'[w] # "verify_fetch"
       /\ \/ orders[loc[w].order].status \notin Settled
          \/ orders[loc[w].order].amount # loc[w].price

\* C19: a verifyMessagePayment call with an invalid signature, an unsettled
\* payment, an amount other than the configured price or a caller who is not
\* the initiator is answered with an error and writes nothing to the
\* conversation.
C19_VerifyRefusals ==
    [][\A w \in Workers :
         VerifyMustRefuse(w) =>
            /\ pc'[w] = "done"
            /\ loc'[w].res >= 400
            /\ conversations' = conversations]_vars

\* worker w answers, or carries on with, a createMessageOrder call that has
\* just found its conversation
CreateOrderChecked(w) ==
    /\ ops' # ops
    /\ loc'[w] # loc[w] \/ pc'[w] # pc[w]
    /\ loc'[w].op = "createMessageOrder"
    /\ loc'[w].res # 404

\* needsToPay of conversation document doc under the configured limit
NeedsToPayNow(doc) == initiatorNeedsToPay(doc, EffectiveLimit(cfg.freeMessageLimit))

Checked(w, op) ==
    /\ ops' # ops
    /\ loc'[w] # loc[w] \/ pc'[w] # pc[w]
    /\ loc'[w].op = op
    /\ loc'[w].res # 404

\* the step refuses the call of w with the given code and writes nothing
RefusedWith(w, code) ==
    /\ pc'[w] = "done"
    /\ loc'[w].res = code
    /\ conversations' = conversations
    /\ messages' = messages
    /\ events' = events

\* C21: revealIdentity answers the non-initiator with 403 and a caller who is
\* already revealed with 409; the conversation is unchanged, no reveal message
\* is written and no identity_revealed event is emitted.
C21_RevealRefusals ==
    [][\A w \in Workers :
         Checked(w, "revealIdentity") =>
            LET doc == conversations[loc'[w].conv]
                u == loc'[w].user
            IN  /\ doc.initiator # u => RefusedWith(w, 403)
                /\ doc.initiator = u /\ isUserRevealed(doc, u) => RefusedWith(w, 409)]_vars

\* C22: requestReveal goes ahead only for the non-initiator while the initiator
\* is unrevealed, whether or not a reveal was requested before; the initiator,
\* and a caller whose counterpart is already revealed, are answered with 403
\* and nothing changes; a call that goes ahead records the requester and writes
\* one system message.
C22_RequestRevealRefusals ==
    [][\A w \in Workers :
         /\ Checked(w, "requestReveal") =>
              LET doc == conversations[loc'[w].conv]
                  u == loc'[w].user
              IN  /\ doc.initiator = u => RefusedWith(w, 403)
                  /\ doc.initiator # u /\ isUserRevealed(doc, doc.initiator) =>
                        RefusedWith(w, 403)
                  /\ doc.initiator # u /\ ~isUserRevealed(doc, doc.initiator) =>
                        pc'[w] = "request_reveal_save"
         /\ pc[w] = "request_reveal_save" /\ pc'[w] # pc[w] =>
              conversations'[loc[w].conv].revealRequestedBy = loc[w].user
         /\ pc[w] = "request_reveal_create" /\ pc'[w] # pc[w] =>
              /\ Len(messages') = Len(messages) + 1
              /\ messages'[Len(messages')].type = "system"
              /\ messages'[Len(messages')].sender = loc[w].user]_vars

NewMessageEvents == {i \in DOMAIN events : events[i].type = "new_message"}

\* event i carries a message that is in the store
OfStoredMessage(i) ==
    /\ events[i].msg \in DOMAIN messages
    /\ messages[events[i].msg].conversation = events[i].conv
    /\ messages[events[i].msg].sender = events[i].user

\* C23: on both send paths every new_message event carries a message that was
\* in the store before the step that emitted it, and a call whose write was
\* refused ends without emitting anything.
C23_EmitAfterWrite ==
    [][/\ \A i \in DOMAIN events' :
            events'[i].type = "new_message" =>
               /\ events'[i].msg \in DOMAIN messages
               /\ messages[events'[i].msg].conversation = events'[i].conv
               /\ messages[events'[i].msg].sender = events'[i].user
       /\ \A w \in Workers :
            pc[w] \in {"send_create", "socket_create"} /\ pc'[w] # pc[w]
               /\ messages' = messages =>
                  pc'[w] = "done" /\ loc'[w].res = 500 /\ events' = events]_vars

\* both send paths have emitted for their stored messages, and a call whose
\* write was refused has ended
C23_Witness ==
    /\ \E i, j \in NewMessageEvents :
          /\ OfStoredMessage(i) /\ OfStoredMessage(j)
          /\ events[i].msg # events[j].msg
    /\ \E w \in Workers :
          /\ pc[w] = "done"
          /\ loc[w].op \in {"sendMessage", "send_message"}
          /\ "written" \in DOMAIN loc[w]

\* C24: once sendMessage has written its message and updated the conversation,
\* the call answers 201 whatever the push notification and the fan-out do, and
\* the message stays in the store.
C24_SendSucceedsDespiteFanout ==
    [][\A w \in Workers :
         pc[w] = "send_notify" /\ pc'[w] # pc[w] =>
            /\ loc'[w].res = 201
            /\ messages' = messages]_vars

\* C25: the new_message events of one conversation are emitted in the order in
\* which their messages were written to the store.
C25_EmitInCommitOrder ==
    \A i, j \in NewMessageEvents :
        i < j /\ events[i].conv = events[j].conv => events[i].msg < events[j].msg

\* the place of a delivery status on the path sent -> delivered -> read
Rank(status) == CASE status = "sent" -> 0 [] status = "delivered" -> 1 [] status = "read" -> 2

\* C26: no step moves the deliveryStatus of a message backwards on the path
\* sent -> delivered -> read.
C26_DeliveryStatusMonotonic ==
    [][\A m \in DOMAIN messages :
         Rank(messages'[m].deliveryStatus) >= Rank(messages[m].deliveryStatus)]_vars

\* a mark_delivered acknowledgement has named a message of its caller that was
\* past the status sent, has left it alone, and the message is read
C26_Witness ==
    \E w \in Workers, m \in DOMAIN messages :
        /\ pc[w] = "done" /\ loc[w].op = "mark_delivered"
        /\ m \in loc[w].ids /\ m \notin loc[w].matched
        /\ messages[m].recipient = loc[w].user
        /\ messages[m].deliveryStatus = "read"

ReactionsOf(m, u) == {i \in DOMAIN messages[m].reactions : messages[m].reactions[i].user = u}

\* C27: a message never holds two reactions of one user, and an addReaction or
\* removeReaction call of user U leaves the reactions of every other user as
\* they were.
C27_OneReactionPerUser ==
    [][/\ \A m \in DOMAIN messages, u \in Users : Cardinality(ReactionsOf(m, u)') <= 1
       /\ \A w \in Workers :
            pc[w] \in {"add_reaction_save", "remove_reaction_save"} /\ pc'[w] # pc[w] =>
               \A m \in DOMAIN messages :
                  WithoutUser(messages'[m].reactions, loc[w].user)
                     = WithoutUser(messages[m].reactions, loc[w].user)]_vars

\* worker w's send has just saved the conversation
SendSaved(w) ==
    \/ pc[w] = "send_save" /\ pc'[w] = "send_notify"
    \/ pc[w] = "socket_save" /\ pc'[w] = "socket_emit"

\* C28: the save of a successful send raises messageCount by exactly 1, raises
\* the unreadCount of the participant other than the sender by exactly 1,
\* leaves the sender's unreadCount as it was and sets lastMessage.senderId to
\* the sender.
C28_SendCounts ==
    [][\A w \in Workers :
         SendSaved(w) =>
            LET c == loc[w].conv
                u == loc[w].user
                own == ParticipantIndex(conversations[c], u)
                other == OtherIndex(conversations[c], u)
            IN  /\ conversations'[c].messageCount = conversations[c].messageCount + 1
                /\ conversations'[c].participants[other].unreadCount
                      = conversations[c].participants[other].unreadCount + 1
                /\ conversations'[c].participants[own].unreadCount
                      = conversations[c].participants[own].unreadCount
                /\ conversations'[c].lastSender = u]_vars

\* a call of one of the per-participant flag handlers by user u on conversation c
FlagStep(w, u, c) ==
    \/ MarkConversationRead(w, u, c)
    \/ MuteConversation(w, u, c)
    \/ UnmuteConversation(w, u, c)
    \/ ArchiveConversation(w, u, c)
    \/ UnarchiveConversation(w, u, c)

\* C29: markAsRead, mute, unmute, archive and unarchive called by participant u
\* leave everything but u's own participant row as it was: the other
\* participant's row, both reveal flags, isAnonymous, initiatorMessageCount and
\* initiatorPaidCycles keep their values, and so does every other conversation.
C29_FlagsTouchOwnRowOnly ==
    [][\A w \in Workers, u \in Users, c \in DOMAIN conversations :
          FlagStep(w, u, c) =>
             LET old == conversations[c]
                 new == conversations'[c]
                 other == OtherIndex(old, u)
             IN  /\ new.participants[other] = old.participants[other]
                 /\ \A k \in 1..2 : new.participants[k].isRevealed = old.participants[k].isRevealed
                 /\ \A k \in 1..2 : new.participants[k].user = old.participants[k].user
                 /\ new.isAnonymous = old.isAnonymous
                 /\ new.initiatorMessageCount = old.initiatorMessageCount
                 /\ new.initiatorPaidCycles = old.initiatorPaidCycles
                 /\ \A d \in DOMAIN conversations \ {c} : conversations'[d] = conversations[d]]_vars

\* a participant has muted and archived the conversation while the other
\* participant's row holds unread messages and the initiator's count is running
C29_Witness ==
    \E c \in DOMAIN conversations, k \in 1..2 :
        /\ conversations[c].participants[k].isMuted
        /\ conversations[c].participants[k].isArchived
        /\ ~conversations[c].participants[3 - k].isMuted
        /\ ~conversations[c].participants[3 - k].isArchived
        /\ conversations[c].participants[3 - k].unreadCount > 0
        /\ conversations[c].initiatorMessageCount > 0

\* the user_offline events the step emits
OfflineEmitted(u) ==
    {k \in (Len(events) + 1)..Len(events') :
        events'[k].type = "user_offline" /\ events'[k].user = u}

\* C30: user_offline for user u is emitted only while no connection of u is
\* registered, and a disconnect that leaves u without a connection is one
\* whose handler goes on to emit it.
C30_OfflineOnlyWithoutConnection ==
    [][\A u \in Users :
          /\ OfflineEmitted(u) # {} => UserSockets(sockets', u) = {}
          /\ (\E w \in Workers :
                 pc[w] # "offline_find" /\ pc'[w] = "offline_find" /\ loc'[w].user = u)
                <=> (\E x \in sockets : x[2] = u /\ sockets' = sockets \ {x}
                                        /\ UserSockets(sockets', u) = {})]_vars

\* the event matches no purchase: none carries its paymentId or its orderId
MatchesNoPurchase(o) ==
    FindByPayment(o, FALSE) = {} /\ FindByPayment(o, TRUE) = {} /\ FindByOrder(o) = {}

\* C31: the webhook handler answers every event with a success response, and
\* an event whose signature fails verification or that matches no purchase
\* changes no purchase and no conversation.
C31_WebhookAlwaysAcknowledges ==
    [][\A w \in Workers, o \in DOMAIN orders, sig \in BOOLEAN :
          handleRazorpayWebhook(w, o, sig) =>
             /\ loc'[w].res = 200
             /\ (~sig \/ MatchesNoPurchase(o))
                    => packs' = packs /\ conversations' = conversations]_vars

\* worker w's useFromPacks draws on pack p in this step
Draws(w, p) ==
    /\ pc[w] = "use_save"
    /\ p = Head(loc[w].ids)
    /\ packs'[p].requestsRemaining # packs[p].requestsRemaining

Usable(p, u) ==
    packs[p].user = u /\ packs[p].status = "active" /\ ~packs[p].expired

\* C32: useFromPacks draws only on packs of the user that are active and
\* unexpired, draws on a pack only when no usable pack with an earlier
\* expiresAt has requests left, and a pack whose requestsRemaining reaches 0
\* becomes exhausted.
C32_DrawsOldestUsablePack ==
    [][\A w \in Workers, p \in DOMAIN packs :
          Draws(w, p) =>
             /\ Usable(p, loc[w].user)
             /\ \A q \in DOMAIN packs :
                   Usable(q, loc[w].user) /\ packs[q].expiresAt < packs[p].expiresAt
                       => packs[q].requestsRemaining = 0
             /\ packs'[p].requestsRemaining = 0 => packs'[p].status = "exhausted"]_vars

\* no call is between two of its steps
Quiescent == \A w \in Workers : pc[w] \in {"idle", "done"}

MessagesOf(c) == {m \in DOMAIN messages : messages[m].conversation = c}

MessagesBy(c, u) == {m \in MessagesOf(c) : messages[m].sender = u}

\* C33: once every send has returned, messageCount is the number of messages
\* stored for the conversation and initiatorMessageCount is the number of
\* stored messages the initiator sent while unrevealed (all of the initiator's
\* messages in an anonymous conversation nobody reveals in, none otherwise).
C33_CountersMatchMessages ==
    Quiescent =>
        \A c \in DOMAIN conversations :
            /\ conversations[c].messageCount = Cardinality(MessagesOf(c))
            /\ conversations[c].initiatorMessageCount
                  = IF InitiatorRevealed(c) THEN 0
                    ELSE Cardinality(MessagesBy(c, Initiator(c)))

\* C34: a conversation created from a request exists only while the request is
\* on its way to accepted: the request is never cancelled, rejected or expired,
\* and it is accepted once no call is between two of its steps.
C34_ConversationOnlyIfAccepted ==
    \A c \in DOMAIN conversations :
        LET r == conversations[c].messageRequest
        IN  /\ requests[r].status \notin {"cancelled", "rejected", "expired"}
            /\ Quiescent => requests[r].status = "accepted"

\* C35: a payment raises initiatorPaidCycles only of the conversation its order
\* was created for: whenever verifyMessagePayment records a payment on
\* conversation c, the order named in the call was minted for c.
C35_PaymentCreditsOwnConversation ==
    [][\A w \in Workers :
          pc[w] = "verify_record" /\ pc'[w] = "done" /\ loc'[w].res = 200
              => orders[loc[w].order].conversation = loc[w].conv]_vars

\* C36: no message is stored from one user to another while a block exists
\* between them in either direction.
C36_NoMessageAcrossBlock ==
    [][Len(messages') > Len(messages) =>
          LET m == messages'[Len(messages')]
          IN  ~hasBlockBetween(m.sender, m.recipient)]_vars

\* a request from s to r has been rejected, cancelled or has expired
Closed(s, r) ==
    \E q \in DOMAIN requests :
        /\ requests[q].sender = s /\ requests[q].recipient = r
        /\ requests[q].status \in {"rejected", "cancelled", "expired"}

\* C37: a sendRequest from s to r that has passed the block and quota checks,
\* made after an earlier request from s to r was rejected, cancelled or expired
\* and while no request between the two is pending or accepted, succeeds and
\* creates a new pending request.
C37_ResendAfterClosed ==
    [][\A w \in Workers :
          (/\ pc[w] = "request_create" /\ pc'[w] = "done"
           /\ Closed(loc[w].user, loc[w].recipient)
           /\ ~existsBetweenUsers(loc[w].user, loc[w].recipient))
              => /\ loc'[w].res = 201
                 /\ Len(requests') = Len(requests) + 1
                 /\ requests'[Len(requests')].status = "pending"]_vars

\* worker w's acceptRequest answers in this step
Accepted(w) == pc[w] = "accept_save" /\ pc'[w] = "done" /\ loc'[w].res = 200

\* C38: when acceptRequest answers, the conversation it created has
\* messageCount 1, the recipient's unreadCount 1 and the initiator's 0; for an
\* anonymous request the initiator is unrevealed and initiatorMessageCount is
\* 1, for a non-anonymous one the initiator is revealed and it is 0.
C38_CountsAfterAccept ==
    [][\A w \in Workers :
          Accepted(w) =>
             LET doc == conversations'[loc[w].conv]
                 req == loc[w].doc
                 ini == ParticipantIndex(doc, req.sender)
                 rec == ParticipantIndex(doc, req.recipient)
             IN  /\ doc.messageCount = 1
                 /\ doc.participants[rec].unreadCount = 1
                 /\ doc.participants[ini].unreadCount = 0
                 /\ doc.participants[ini].isRevealed = ~req.isAnonymous
                 /\ doc.initiatorMessageCount = (IF req.isAnonymous THEN 1 ELSE 0)]_vars

\* an acceptRequest of an anonymous request has answered
C38_Witness ==
    \E w \in Workers :
        /\ pc[w] = "done" /\ loc[w].op = "acceptRequest" /\ loc[w].res = 200
        /\ requests[loc[w].req].isAnonymous
        /\ conversations[loc[w].conv].initiatorMessageCount = 1

\* the reactions of user u in a list of reactions
ByUser(rs, u) == SelectSeq(rs, LAMBDA r : r.user = u)

\* the step emits message_reaction for message m in the name of user u
ReactionEmitted(m, u) ==
    \E k \in (Len(events) + 1)..Len(events') :
        /\ events'[k].type = "message_reaction"
        /\ events'[k].msg = m /\ events'[k].user = u

\* C39: a reaction of user u on message m is stored or changed, and
\* message_reaction is emitted for u and m, only when u is a participant of
\* the conversation of m.
C39_OnlyParticipantsReact ==
    [][\A m \in DOMAIN messages, u \in QuotaUsers :
          (\/ ByUser(messages'[m].reactions, u) # ByUser(messages[m].reactions, u)
           \/ ReactionEmitted(m, u))
              => HasParticipant(conversations[messages[m].conversation], u)]_vars

====
